---- MODULE Spec2Model ----
(***************************************************************************)
(* A model of RFLink (rflink.h / rflink.cpp), the link layer that runs on  *)
(* top of a half-duplex radio: the task pool, the task state machine, the  *)
(* packet-id cache, the event pump do_events() and the public API.         *)
(*                                                                         *)
(* Two devices exist, NodeA and NodeB; each runs its own RFLink object.    *)
(* Every operator that models a member function takes a working record c   *)
(* ("context"): c.e is the RFLink object, c.tx the frames handed to        *)
(* deviceSend so far in the current call, c.ev what the call did (used for *)
(* the observation variable hist only).  The clock (millis()) is one       *)
(* value during a call: get_current_time() returns `now` wherever the call *)
(* reads it.  mtime_t is an unsigned 32-bit integer; the model keeps a     *)
(* narrower one (MtimeMod) with the same wrap-around, wide enough for every*)
(* clock value and delay of the model but the long receive timeout.        *)
(***************************************************************************)
EXTENDS Integers, Sequences, FiniteSets, TLC

\* ----------------------------------------------------------------- bounds
\* Slots of the task pool (DEFAULT_MAX_TASK_COUNT is 15 in rflink.h:43).
DEFAULT_MAX_TASK_COUNT == 2
\* Entries of the packet-id cache (PKTID_CACHE_SIZE is 10 in rflink.h:45).
PKTID_CACHE_SIZE == 2
\* Payload capacity of the radio (CCPACKET_DATA_LEN - sizeof(Header) in the code).
MAX_PAYLOAD == 2
\* The clock advances in steps of TimeStep ms up to MaxClock.
TimeStep == 450
MaxClock == 1350
\* The clock of the specification that studies the device resets runs longer.
MaxResetClock == 2700
\* mtime_t counts modulo MtimeMod (2^32 in the code).
MtimeMod == 16384
\* Calls of the entry points in the specification that studies their failures.
MaxCalls == 3
\* Calls of check_pktid_already_seen() and steps of half the discard delay in
\* the specification that studies the cache alone.
MaxLookups == 4
MaxDiscardTicks == 3
\* Frames the environment may put on a device's radio, tasks the application
\* may create.
MaxArrivals == 3
MaxAcks == 2
\* Calls of send() on the sending device of the two-device specification.
MaxSends == 1
MaxCreates == 2
\* Observation counters saturate at CountCap.
CountCap == 4

\* ------------------------------------------------------- program constants
ERR_OK == 0
ERR_DEVICE_NOT_REGISTERED == 1
ERR_SEND_FUNC_NOT_REGISTERED == 2
ERR_RECEIVE_FUNC_NOT_REGISTERED == 3
ERR_SEND_DATA_LEN_ABOVE_LIMIT == 4
ERR_SEND_IO == 5
ERR_SEND_BAD_ARGUMENTS == 6
ERR_SEND_NO_ACK_RCVD == 7
ERR_TASK_CREATED_OK == 8
ERR_UNABLE_TO_CREATE_TASK == 9
ERR_UNKNOWN_TASKID == 10
ERR_UNDEFINED == 11
ERR_TASK_UNDERWAY == 12
ERR_TIMEOUT == 13

ST_NOTHING == 0
ST_SEND == 1
ST_SEND_DONE == 2
ST_RECEIVE == 3
ST_RECEIVE_DATA_AVAILABLE == 4
ST_RECEIVE_DATA_RETRIEVED == 5
ST_RECEIVE_TIMEDOUT == 6
ST_FINISHED == 7

FLAG_NONE == 0
FLAG_SIN == 1
FLAG_ACK == 2

ADDR_BROADCAST == 255
DEFAULT_RECEIVE_DATA_AVAIL_DELAY == 900
DEFAULT_RECEIVE_PURGE_DELAY == 1000
DEFAULT_RECEIVE_TIMEOUT_DELAY == 0
DEFAULT_SEND_PURGE_DELAY == 1000
CACHE_PKTID_DISCARD_DELAY == 176400000
MIN_DEVICE_RESET_DELAY == 1000
HeaderLen == 6
\* taskid_t and pktid_t are uint16_t.
Mod16 == 65536

snd_sched == <<0, 200, 550, 900>>
snd_expack_sched == <<0, 100, 450, 800, 900>>
snd_repack_sched == <<0>>

\* Device addresses of the example sketches, and a third device.
AddrA == 11
AddrB == 94
AddrC == 171

NodeA == "A"
NodeB == "B"
Nodes == {NodeA, NodeB}
AddrOf(n) == IF n = NodeA THEN AddrA ELSE AddrB

Slots == 1..DEFAULT_MAX_TASK_COUNT
CacheIdx == 0..(PKTID_CACHE_SIZE - 1)

Min(a, b) == IF a < b THEN a ELSE b
Bump(x) == Min(x + 1, CountCap)

\* ------------------------------------------------------------------ flags
\* A to_flags that loses the sequence counter.
to_flags_OptOnly(seq, opt) == opt % 16

\* to_flags: ((seq & 0x0F) << 4) | (opt & 0x0F)
to_flags(seq, opt) == ((seq % 16) * 16) + (opt % 16)
\* from_flags: *opt = flags & 0x0F, *seq = flags >> 4
flags_opt(flags) == flags % 16
flags_seq(flags) == flags \div 16
\* (opt & bit) != 0 for the one-bit masks FLAG_SIN and FLAG_ACK
HasBit(opt, bit) == (opt \div bit) % 2 = 1

\* ----------------------------------------------------------------- packets
\* struct Packet behind a PktKeeper; null is PktKeeper::pkt == nullptr.
NullPkt ==
    [flags |-> 0, null |-> TRUE, dst |-> 0, src |-> 0, pktid |-> 0,
     len |-> 0, data |-> <<>>]

MkPkt(dst, src, flags, pktid, len, data) ==
    [flags |-> flags, null |-> FALSE, dst |-> dst, src |-> src,
     pktid |-> pktid, len |-> len, data |-> data]

Prefix(s, k) == SubSeq(s, 1, Min(k, Len(s)))

\* PktKeeper::get_pkt_len
get_pkt_len(pkt) == IF pkt.null THEN 0 ELSE HeaderLen + pkt.len

\* PktKeeper::get_flags
get_flags(pkt) == IF pkt.null THEN 255 ELSE pkt.flags

\* The assertion of PktKeeper::prepare_for_sending on its arguments.
prepare_for_sending_args_ok(h, data) ==
    \/ h.len = 0 /\ data = <<>>
    \/ h.len >= 1 /\ data # <<>>

\* PktKeeper::prepare_for_sending: the header is copied, len is clipped to the
\* payload capacity, len bytes of data follow.  With data == nullptr, memcpy
\* reads the bytes found at address 0, at_null.
prepare_for_sending(maxlen, h, data, at_null) ==
    LET l == Min(h.len, maxlen)
    IN  MkPkt(h.dst, h.src, h.flags, h.pktid, l,
              Prefix(IF data = <<>> THEN at_null ELSE data, l))

\* PktKeeper::reduce_packet_to_its_header
reduce_packet_to_its_header(pkt) == [pkt EXCEPT !.len = 0, !.data = <<>>]

\* A copy that does not look at the size of the caller's buffer.
copy_data_Whole(pkt, buf_len) == IF pkt.null THEN <<>> ELSE pkt.data

\* PktKeeper::copy_data: what lands in the caller's buffer of buf_len bytes.
copy_data(pkt, buf_len) ==
    IF pkt.null THEN <<>> ELSE Prefix(pkt.data, Min(pkt.len, buf_len))

\* A frame on the air is a Packet plus the bytes that really follow the header;
\* nb_bytes is what deviceReceive returns for it.  A frame cut short inside
\* its header carries the number of its bytes in a field cut.
nb_bytes(f) == IF "cut" \in DOMAIN f THEN f.cut ELSE HeaderLen + Len(f.data)

\* A check that looks at nothing but the presence of a frame.
check_rcvd_pkt_is_ok_Any(f, maxlen, nb) == ~f.null

\* A check that does not compare the length byte with the bytes received.
check_rcvd_pkt_is_ok_NoSize(f, maxlen, nb) ==
    IF f.null THEN FALSE ELSE f.len <= maxlen

\* PktKeeper::check_rcvd_pkt_is_ok, on the frame just written into recpkt.
check_rcvd_pkt_is_ok(f, maxlen, nb) ==
    IF f.null THEN FALSE
    ELSE IF f.len > maxlen THEN FALSE
    ELSE get_pkt_len(f) = nb

\* ------------------------------------------------------------------- tasks
\* A Task of the pre-allocated array tskhead[] as the constructor leaves it:
\* zeroed static storage, then task_initialize().
FreshTask ==
    [taskid |-> 0, status |-> ST_NOTHING, pkt |-> NullPkt,
     mtime_ref |-> 0, mtime_wakeup |-> 0, last_retcode |-> ERR_UNDEFINED,
     nb_send_schedules |-> 0, send_schedule_ptr |-> <<>>,
     send_schedule_pos |-> 0,
     evtsub_wakeup |-> FALSE, evtsub_pktrcvd |-> FALSE,
     is_an_ack |-> FALSE, need_ack |-> FALSE, has_received_ack |-> FALSE,
     unattended |-> FALSE, nbsend |-> 0]

\* RFLink::task_initialize: the five fields it resets; every other field of the
\* slot keeps the value the previous task left.
task_initialize(t) ==
    [t EXCEPT !.taskid = 0, !.status = ST_NOTHING, !.evtsub_wakeup = FALSE,
              !.evtsub_pktrcvd = FALSE, !.last_retcode = ERR_UNDEFINED]

\* RFLink::task_destroy, pre_allocate branch: release_data(), task_initialize(),
\* --task_count.
task_destroy(c, i) ==
    [c EXCEPT !.e.tasks[i] = task_initialize([@ EXCEPT !.pkt = NullPkt]),
              !.e.task_count = @ - 1]

FirstFreeSlot(tasks) ==
    IF \E i \in Slots : tasks[i].status = ST_NOTHING
    THEN CHOOSE i \in Slots :
            /\ tasks[i].status = ST_NOTHING
            /\ \A j \in Slots : j < i => tasks[j].status # ST_NOTHING
    ELSE 0

\* task_create taking the task-id before it looks for a slot.
task_create_IdFirst(c, status, now) ==
    LET id == (c.e.last_taskid + 1) % Mod16
        i  == FirstFreeSlot(c.e.tasks)
    IN  IF c.e.task_count >= c.e.max_task_count \/ i = 0
        THEN [c EXCEPT !.slot = 0, !.e.last_taskid = id]
        ELSE [c EXCEPT !.e.tasks[i] =
                            [task_initialize(c.e.tasks[i]) EXCEPT
                                !.taskid = id, !.status = status,
                                !.mtime_ref = now],
                       !.e.last_taskid = id,
                       !.e.task_count = @ + 1, !.slot = i]

\* RFLink::task_create, pre_allocate branch.  c.slot is the slot of the new
\* task, 0 for nullptr.  The walk along the next pointers ends with the array
\* unless max_task_count is above DEFAULT_MAX_TASK_COUNT: it then goes on in
\* the memory after the array, which c.e.oob_task records.
task_create(c, status, now) ==
    IF c.e.task_count >= c.e.max_task_count THEN [c EXCEPT !.slot = 0]
    ELSE LET i == FirstFreeSlot(c.e.tasks)
         IN  IF i = 0
             THEN [c EXCEPT !.slot = 0,
                            !.e.oob_task =
                                @ \/ c.e.max_task_count > DEFAULT_MAX_TASK_COUNT]
             ELSE LET id == (c.e.last_taskid + 1) % Mod16
                      t  == [task_initialize(c.e.tasks[i]) EXCEPT
                                !.taskid = id, !.status = status,
                                !.mtime_ref = now,
                                !.is_an_ack = FALSE, !.need_ack = FALSE,
                                !.has_received_ack = FALSE,
                                !.unattended = FALSE, !.nbsend = 0]
                  IN  [c EXCEPT !.e.tasks[i] = t, !.e.last_taskid = id,
                                !.e.task_count = @ + 1, !.slot = i]

\* RFLink::get_task_by_taskid: the first slot of the array holding that id
\* (free slots hold id 0), 0 for nullptr.
get_task_by_taskid(e, taskid) ==
    IF \E i \in Slots : e.tasks[i].taskid = taskid
    THEN CHOOSE i \in Slots :
            /\ e.tasks[i].taskid = taskid
            /\ \A j \in Slots : j < i => e.tasks[j].taskid # taskid
    ELSE 0

\* RFLink::task_get_status
task_get_status(e, taskid) ==
    LET i == get_task_by_taskid(e, taskid)
    IN  IF i = 0 THEN ST_NOTHING ELSE e.tasks[i].status

\* ------------------------------------------------------- packet-id cache
FreshCacheEntry == [used |-> FALSE, src |-> 0, mtime |-> 0, last_pktid_seen |-> 0]

\* An iteration that does not note the source as found when the packet-id
\* is a new one.
CacheStep_NewIdNotFound(s, i, src, pktid, tref) ==
    LET cur == s.cache[i]
    IN  IF ~cur.used
        THEN IF s.unused_entry_idx < 0
             THEN [s EXCEPT !.unused_entry_idx = i] ELSE s
        ELSE IF cur.src = src
        THEN IF cur.last_pktid_seen = pktid
             THEN [s EXCEPT !.src_found = TRUE, !.cache[i].mtime = tref,
                            !.ret = TRUE]
             ELSE [s EXCEPT !.cache[i].mtime = tref,
                            !.cache[i].last_pktid_seen = pktid]
        ELSE IF tref - cur.mtime > s.biggest_elapsed_found
        THEN [s EXCEPT !.biggest_elapsed_found = tref - cur.mtime,
                       !.oldest_entry_idx = i]
        ELSE s

\* One iteration of the for loop of check_pktid_already_seen.  s carries the
\* cache and the loop's local variables.
CacheStep(s, i, src, pktid, tref) ==
    LET cur     == s.cache[i]
        elapsed == tref - cur.mtime
        swept   == cur.used /\ elapsed >= CACHE_PKTID_DISCARD_DELAY
        used    == cur.used /\ ~swept
        s1      == IF swept
                   THEN [s EXCEPT !.cache[i].used = FALSE,
                                  !.dropped = @ \cup {cur.src}]
                   ELSE s
    IN  IF ~used
        THEN IF s1.unused_entry_idx < 0
             THEN [s1 EXCEPT !.unused_entry_idx = i] ELSE s1
        ELSE IF cur.src = src
        THEN IF cur.last_pktid_seen = pktid
             THEN [s1 EXCEPT !.src_found = TRUE, !.cache[i].mtime = tref,
                             !.ret = TRUE]
             ELSE [s1 EXCEPT !.src_found = TRUE, !.cache[i].mtime = tref,
                             !.cache[i].last_pktid_seen = pktid]
        ELSE IF elapsed > s1.biggest_elapsed_found
        THEN [s1 EXCEPT !.biggest_elapsed_found = elapsed,
                        !.oldest_entry_idx = i]
        ELSE s1

RECURSIVE CacheLoop(_, _, _, _, _)
CacheLoop(s, i, src, pktid, tref) ==
    IF i >= PKTID_CACHE_SIZE THEN s
    ELSE CacheLoop(CacheStep(s, i, src, pktid, tref), i + 1, src, pktid, tref)

\* RFLink::check_pktid_already_seen.  The result is c.seen.  When no entry is
\* unused and no entry is older than another (oldest_entry_idx stays -1) the
\* code writes cache_pktids[-1]: c.e.oob_write records that out-of-bounds
\* store and the cache itself is left as it is.
check_pktid_already_seen(c, src, pktid, tref) ==
    LET s0 == [cache |-> c.e.cache, src_found |-> FALSE,
               unused_entry_idx |-> -1, oldest_entry_idx |-> -1,
               biggest_elapsed_found |-> 0, ret |-> FALSE, dropped |-> {}]
        s  == CacheLoop(s0, 0, src, pktid, tref)
        idx == IF s.unused_entry_idx >= 0 THEN s.unused_entry_idx
               ELSE s.oldest_entry_idx
        new == [used |-> TRUE, src |-> src, mtime |-> tref,
                last_pktid_seen |-> pktid]
    IN  IF s.src_found
        THEN [c EXCEPT !.e.cache = s.cache, !.seen = s.ret,
                       !.ev.dropped = @ \cup s.dropped]
        ELSE IF idx < 0
        THEN [c EXCEPT !.e.cache = s.cache, !.e.oob_write = TRUE,
                       !.seen = s.ret, !.ev.dropped = @ \cup s.dropped]
        ELSE [c EXCEPT !.e.cache = [s.cache EXCEPT ![idx] = new],
                       !.seen = s.ret,
                       !.ev.dropped = @ \cup s.dropped \cup
                            (IF s.cache[idx].used THEN {s.cache[idx].src}
                             ELSE {})]

\* ------------------------------------------------------------ the contexts
\* What one call did, for the observation variable.
NoEvents ==
    [dropped |-> {}, drained |-> NullPkt, delivered |-> 0, consumer |-> 0,
     consumer_status |-> ST_NOTHING, acks |-> <<>>, ackmark |-> {},
     ackfail |-> FALSE, assert_failed |-> FALSE, reset |-> FALSE,
     devreset |-> FALSE, received |-> FALSE, null_copy |-> FALSE,
     slept |-> FALSE]

\* at_null is what a read at address 0 finds (nothing of the program).
Ctx(e) ==
    [e |-> e, tx |-> <<>>, ev |-> NoEvents, slot |-> 0, seen |-> FALSE,
     got_a_pkt |-> FALSE, new_status |-> ST_NOTHING, pkt_consumed |-> FALSE,
     device_needs_reset |-> FALSE, ret |-> ERR_UNDEFINED, buf |-> <<>>,
     sender |-> 0, at_null |-> [k \in 1..MAX_PAYLOAD |-> 0]]

\* ------------------------------------------------------------ sending ACKs
\* An ACK that is handed to deviceSend by the call that creates its task.
send_ack_noblock_SendsAtOnce(c, h, now, origin_dst) ==
    IF ~c.e.funcs.deviceInit THEN [c EXCEPT !.ret = ERR_DEVICE_NOT_REGISTERED]
    ELSE IF ~c.e.funcs.deviceSend
    THEN [c EXCEPT !.ret = ERR_SEND_FUNC_NOT_REGISTERED]
    ELSE LET c1  == task_create(c, ST_SEND, now)
             i   == c1.slot
             pkt == prepare_for_sending(c.e.max_payload_len, h, <<>>, c.at_null)
         IN  IF i = 0 THEN [c1 EXCEPT !.ret = ERR_UNABLE_TO_CREATE_TASK]
             ELSE [c1 EXCEPT
                    !.e.tasks[i] =
                        [@ EXCEPT
                            !.evtsub_wakeup = TRUE,
                            !.send_schedule_ptr = snd_repack_sched,
                            !.nb_send_schedules = Len(snd_repack_sched),
                            !.send_schedule_pos = 1,
                            !.mtime_wakeup = now,
                            !.is_an_ack = TRUE,
                            !.unattended = TRUE,
                            !.nbsend = 1,
                            !.status = ST_SEND_DONE,
                            !.pkt = pkt],
                    !.tx = Append(@, [f |-> pkt, rc |-> ERR_OK, slot |-> i]),
                    !.ev.acks = Append(@, [dst |-> h.dst, pktid |-> h.pktid,
                                           origin_dst |-> origin_dst]),
                    !.ret = ERR_TASK_CREATED_OK]

\* RFLink::send_ack_noblock.  h is the ACK's header (h.len = 0); origin_dst is
\* the destination of the frame being acknowledged, kept for c.ev only.
send_ack_noblock(c, h, now, origin_dst) ==
    IF ~c.e.funcs.deviceInit THEN [c EXCEPT !.ret = ERR_DEVICE_NOT_REGISTERED]
    ELSE IF ~c.e.funcs.deviceSend
    THEN [c EXCEPT !.ret = ERR_SEND_FUNC_NOT_REGISTERED]
    ELSE LET c1 == task_create(c, ST_SEND, now)
             i  == c1.slot
         IN  IF i = 0 THEN [c1 EXCEPT !.ret = ERR_UNABLE_TO_CREATE_TASK]
             ELSE [c1 EXCEPT
                    !.e.tasks[i] =
                        [@ EXCEPT
                            !.evtsub_wakeup = TRUE,
                            !.send_schedule_ptr = snd_repack_sched,
                            !.nb_send_schedules = Len(snd_repack_sched),
                            !.send_schedule_pos = 0,
                            !.mtime_wakeup =
                                c1.e.tasks[i].mtime_ref + snd_repack_sched[1],
                            !.is_an_ack = TRUE,
                            !.unattended = TRUE,
                            !.pkt = prepare_for_sending(c.e.max_payload_len,
                                                        h, <<>>, c.at_null)],
                    !.ev.acks = Append(@, [dst |-> h.dst, pktid |-> h.pktid,
                                           origin_dst |-> origin_dst]),
                    !.ret = ERR_TASK_CREATED_OK]

\* RFLink::send_ack: an ACK task for the frame task i holds, if that frame has
\* FLAG_SIN.  The return code of send_ack_noblock is dropped, as in the code.
send_ack(c, i, now) ==
    LET pkt == c.e.tasks[i].pkt
        seq == flags_seq(get_flags(pkt))
        opt == flags_opt(get_flags(pkt))
    IN  IF HasBit(opt, FLAG_SIN)
        THEN LET ack_h == [dst |-> pkt.src, src |-> c.e.device_addr,
                           flags |-> to_flags(seq, FLAG_ACK),
                           pktid |-> pkt.pktid, len |-> 0]
                 r     == send_ack_noblock(c, ack_h, now, pkt.dst)
             IN  [r EXCEPT !.ret = c.ret,
                           !.ev.ackfail = @ \/ r.ret # ERR_TASK_CREATED_OK]
        ELSE c

\* A data_retrieved_post that leaves the timer as the delivery set it.
data_retrieved_post_KeepsTimer(c, i) ==
    [c EXCEPT !.e.tasks[i] =
        [@ EXCEPT !.pkt = reduce_packet_to_its_header(@),
                  !.evtsub_wakeup = TRUE]]

\* RFLink::data_retrieved_post
data_retrieved_post(c, i) ==
    [c EXCEPT !.e.tasks[i] =
        [@ EXCEPT !.pkt = reduce_packet_to_its_header(@),
                  !.evtsub_wakeup = TRUE,
                  !.mtime_wakeup =
                      c.e.tasks[i].mtime_ref + c.e.receive_purge_delay]]

\* ---------------------------------------------------------- task handlers
\* An ACK branch that takes any ACK.
AckMatches_Any(t, pk) == TRUE

\* The ACK branch of tev_received accepts the ACK pk for task t.
AckMatches(t, pk) == t.pkt.pktid = pk.pktid

\* A RECEIVE branch that ignores the packet-id cache.
ReceiveAccepts_NoCache(t, pktid_already_seen) == t.status = ST_RECEIVE

\* The RECEIVE branch of tev_received takes the frame.
ReceiveAccepts(t, pktid_already_seen) ==
    t.status = ST_RECEIVE /\ ~pktid_already_seen

\* A repeat branch that acknowledges before the retrieval too.
ReAckStatus_Always(t) ==
    t.status \in {ST_RECEIVE_DATA_AVAILABLE, ST_RECEIVE_DATA_RETRIEVED}

\* The status in which a repeated frame makes tev_received call send_ack.
ReAckStatus(t) == t.status = ST_RECEIVE_DATA_RETRIEVED

\* An acceptance that leaves the timer subscription as it was.
tev_received_accept_NoTimer(t, pk, now, delay) ==
    [t EXCEPT !.pkt = MkPkt(pk.dst, pk.src, pk.flags, pk.pktid,
                            pk.len, Prefix(pk.data, pk.len)),
              !.last_retcode = ERR_OK,
              !.mtime_ref = now,
              !.mtime_wakeup = now + delay]

\* RFLink::tev_received, what the accepting task becomes: it holds a copy of
\* the frame and wakes up after receive_data_avail_delay.
tev_received_accept(t, pk, now, delay) ==
    [t EXCEPT !.pkt = MkPkt(pk.dst, pk.src, pk.flags, pk.pktid,
                            pk.len, Prefix(pk.data, pk.len)),
              !.last_retcode = ERR_OK,
              !.evtsub_wakeup = TRUE,
              !.mtime_ref = now,
              !.mtime_wakeup = now + delay]

\* A tev_received whose ACK branch marks the task and leaves it in its status,
\* with its schedule.
tev_received_KeepsSending(c, i, pk, pktid_already_seen, now) ==
    LET t   == c.e.tasks[i]
        opt == flags_opt(get_flags(pk))
        c0  == [c EXCEPT !.new_status = t.status, !.pkt_consumed = FALSE]
    IN  IF HasBit(opt, FLAG_ACK)
        THEN IF /\ t.status \in {ST_SEND, ST_SEND_DONE}
                /\ t.need_ack /\ ~t.has_received_ack
                /\ AckMatches(t, pk)
             THEN [c0 EXCEPT
                    !.e.tasks[i] = [@ EXCEPT !.has_received_ack = TRUE],
                    !.pkt_consumed = TRUE,
                    !.ev.ackmark = @ \cup {i}]
             ELSE c0
        ELSE IF ReceiveAccepts(t, pktid_already_seen)
        THEN [c0 EXCEPT
                !.e.tasks[i] =
                    tev_received_accept(@, pk, now, c.e.receive_data_avail_delay),
                !.pkt_consumed = TRUE,
                !.new_status = ST_RECEIVE_DATA_AVAILABLE,
                !.ev.delivered = i]
        ELSE IF /\ t.status \in {ST_RECEIVE_DATA_AVAILABLE,
                                 ST_RECEIVE_DATA_RETRIEVED}
                /\ t.pkt.pktid = pk.pktid
                /\ t.pkt.src = pk.src
        THEN LET c1 == [c0 EXCEPT !.pkt_consumed = TRUE]
             IN  IF ReAckStatus(t) THEN send_ack(c1, i, now) ELSE c1
        ELSE c0

\* RFLink::tev_received for task i and the frame pk of recpkt.  The result is
\* c.new_status and c.pkt_consumed.
tev_received(c, i, pk, pktid_already_seen, now) ==
    LET t   == c.e.tasks[i]
        opt == flags_opt(get_flags(pk))
        c0  == [c EXCEPT !.new_status = t.status, !.pkt_consumed = FALSE]
    IN  IF HasBit(opt, FLAG_ACK)
        THEN IF /\ t.status \in {ST_SEND, ST_SEND_DONE}
                /\ t.need_ack /\ ~t.has_received_ack
                /\ AckMatches(t, pk)
             THEN [c0 EXCEPT
                    !.e.tasks[i] =
                        [@ EXCEPT
                            !.has_received_ack = TRUE,
                            !.mtime_wakeup =
                                IF t.status = ST_SEND
                                THEN now + c.e.send_purge_delay ELSE @,
                            !.pkt = reduce_packet_to_its_header(@)],
                    !.new_status =
                        IF t.status = ST_SEND THEN ST_SEND_DONE ELSE t.status,
                    !.pkt_consumed = TRUE,
                    !.ev.ackmark = @ \cup {i}]
             ELSE c0
        ELSE IF ReceiveAccepts(t, pktid_already_seen)
        THEN [c0 EXCEPT
                !.e.tasks[i] =
                    tev_received_accept(@, pk, now, c.e.receive_data_avail_delay),
                !.pkt_consumed = TRUE,
                !.new_status = ST_RECEIVE_DATA_AVAILABLE,
                !.ev.delivered = i]
        ELSE IF /\ t.status \in {ST_RECEIVE_DATA_AVAILABLE,
                                 ST_RECEIVE_DATA_RETRIEVED}
                /\ t.pkt.pktid = pk.pktid
                /\ t.pkt.src = pk.src
        THEN LET c1 == [c0 EXCEPT !.pkt_consumed = TRUE]
             IN  IF ReAckStatus(t) THEN send_ack(c1, i, now) ELSE c1
        ELSE c0

\* A test that keeps the last entry of every schedule as a listen window.
Transmits_ListenLast(t) == t.send_schedule_pos < t.nb_send_schedules - 1

\* A test that transmits at every entry of every schedule.
Transmits_Always(t) == TRUE

\* The test of tev_wakeup that decides whether this wake-up transmits.
Transmits(t) ==
    ~t.need_ack \/ t.send_schedule_pos < t.nb_send_schedules - 1

\* A tev_wakeup that ends a task whose data nobody retrieved, at once.
tev_wakeup_PurgesAvailable(c, i, now, rc) ==
    LET t == c.e.tasks[i]
    IN  IF t.status = ST_SEND
        THEN LET sends == Transmits(t)
                 seq   == flags_seq(get_flags(t.pkt))
                 seq1  == IF t.is_an_ack THEN seq ELSE seq + 1
                 t1    == IF sends
                          THEN [t EXCEPT
                                  !.nbsend = (@ + 1) % 256,
                                  !.last_retcode = rc,
                                  !.pkt.flags = to_flags(seq1, get_flags(t.pkt))]
                          ELSE t
                 pos   == t.send_schedule_pos + 1
                 more  == pos < t.nb_send_schedules
                 t2    == [t1 EXCEPT
                             !.send_schedule_pos = pos,
                             !.mtime_wakeup =
                                IF more
                                THEN t.mtime_ref + t.send_schedule_ptr[pos + 1]
                                ELSE IF t.unattended THEN now
                                ELSE now + c.e.send_purge_delay]
             IN  [c EXCEPT
                    !.e.tasks[i] = t2,
                    !.tx = IF sends
                           THEN Append(@, [f |-> t.pkt, rc |-> rc, slot |-> i])
                           ELSE @,
                    !.new_status = IF more THEN t.status ELSE ST_SEND_DONE]
        ELSE IF t.status = ST_RECEIVE
        THEN [c EXCEPT
                !.e.tasks[i].evtsub_wakeup = TRUE,
                !.e.tasks[i].mtime_wakeup =
                    t.mtime_ref + DEFAULT_RECEIVE_TIMEOUT_DELAY,
                !.new_status = ST_RECEIVE_TIMEDOUT]
        ELSE [c EXCEPT !.new_status = ST_FINISHED]

\* RFLink::tev_wakeup for task i; rc is what deviceSend returns if it is
\* called.  The result is c.new_status.
tev_wakeup(c, i, now, rc) ==
    LET t == c.e.tasks[i]
    IN  IF t.status = ST_SEND
        THEN LET sends == Transmits(t)
                 seq   == flags_seq(get_flags(t.pkt))
                 seq1  == IF t.is_an_ack THEN seq ELSE seq + 1
                 t1    == IF sends
                          THEN [t EXCEPT
                                  !.nbsend = (@ + 1) % 256,
                                  !.last_retcode = rc,
                                  !.pkt.flags = to_flags(seq1, get_flags(t.pkt))]
                          ELSE t
                 pos   == t.send_schedule_pos + 1
                 more  == pos < t.nb_send_schedules
                 t2    == [t1 EXCEPT
                             !.send_schedule_pos = pos,
                             !.mtime_wakeup =
                                IF more
                                THEN t.mtime_ref + t.send_schedule_ptr[pos + 1]
                                ELSE IF t.unattended THEN now
                                ELSE now + c.e.send_purge_delay]
             IN  [c EXCEPT
                    !.e.tasks[i] = t2,
                    !.tx = IF sends
                           THEN Append(@, [f |-> t.pkt, rc |-> rc, slot |-> i])
                           ELSE @,
                    !.new_status = IF more THEN t.status ELSE ST_SEND_DONE]
        ELSE IF t.status = ST_SEND_DONE
        THEN [c EXCEPT !.new_status = ST_FINISHED]
        ELSE IF t.status \in {ST_RECEIVE_DATA_RETRIEVED, ST_RECEIVE_TIMEDOUT}
        THEN [c EXCEPT !.new_status = ST_FINISHED]
        ELSE IF t.status = ST_RECEIVE_DATA_AVAILABLE
        THEN [data_retrieved_post(c, i) EXCEPT
                !.new_status = ST_RECEIVE_TIMEDOUT]
        ELSE IF t.status = ST_RECEIVE
        THEN [c EXCEPT
                !.e.tasks[i].evtsub_wakeup = TRUE,
                !.e.tasks[i].mtime_wakeup =
                    t.mtime_ref + DEFAULT_RECEIVE_TIMEOUT_DELAY,
                !.new_status = ST_RECEIVE_TIMEDOUT]
        ELSE \* assert(false): never reached
             [c EXCEPT !.ev.assert_failed = TRUE, !.new_status = ST_NOTHING]

\* -------------------------------------------------------------- do_events
\* RFLink::interrupts_on
interrupts_on(c) == [c EXCEPT !.e.interrupt_is_attached = TRUE]

\* An interrupts_off() that leaves the interrupt attached.
interrupts_off_Noop(c) == c

\* RFLink::interrupts_off
interrupts_off(c) == [c EXCEPT !.e.interrupt_is_attached = FALSE]

\* A first part that leaves got_a_pkt up after a task consumed the frame.
task_pktrcvd_KeepsFrame(c, i, pk, now) ==
    LET t == c.e.tasks[i]
        x == tev_received(c, i, pk, c.seen, now)
    IN  IF t.evtsub_pktrcvd /\ c.got_a_pkt
        THEN IF x.pkt_consumed
             THEN [x EXCEPT !.ev.consumer = i,
                            !.ev.consumer_status = t.status]
             ELSE x
        ELSE [c EXCEPT !.new_status = t.status]

\* The task loop of do_events for slot i, first part: a task subscribed to
\* frames is handed the frame obtained; got_a_pkt falls once a task consumed it.
task_pktrcvd(c, i, pk, now) ==
    LET t == c.e.tasks[i]
        x == tev_received(c, i, pk, c.seen, now)
    IN  IF t.evtsub_pktrcvd /\ c.got_a_pkt
        THEN IF x.pkt_consumed
             THEN [x EXCEPT !.got_a_pkt = FALSE,
                            !.ev.consumer = i,
                            !.ev.consumer_status = t.status]
             ELSE x
        ELSE [c EXCEPT !.new_status = t.status]

\* A comparison of the two times as numbers, which is wrong once millis() has
\* wrapped between them.
elapsed_NoWrap(tref, mtime_wakeup) == tref - mtime_wakeup

\* (long int)(tref - tsk->mtime_wakeup): the unsigned difference, read as a
\* signed integer of the same width.
elapsed(tref, mtime_wakeup) ==
    LET d == (tref - mtime_wakeup) % MtimeMod
    IN  IF d >= MtimeMod \div 2 THEN d - MtimeMod ELSE d

\* A second part that does not look at the time.
task_wakeup_AnyTime(cr, i, now, rc) ==
    LET t1 == cr.e.tasks[i]
    IN  IF t1.evtsub_wakeup /\ cr.new_status = t1.status
        THEN tev_wakeup(cr, i, now, rc)
        ELSE cr

\* Second part: the timer, if the frame did not change the status.
task_wakeup(cr, i, now, rc) ==
    LET t1 == cr.e.tasks[i]
    IN  IF /\ t1.evtsub_wakeup
           /\ cr.new_status = t1.status
           /\ elapsed(now, t1.mtime_wakeup) >= 0
        THEN tev_wakeup(cr, i, now, rc)
        ELSE cr

\* Last part: the assertion, then destruction or the new status.
task_settle(cw, i) ==
    LET t2 == cw.e.tasks[i]
        ns == cw.new_status
        ca == IF /\ ns \notin {ST_RECEIVE, ST_NOTHING, ST_FINISHED}
                 /\ ~t2.evtsub_wakeup
              THEN [cw EXCEPT !.ev.assert_failed = TRUE]
              ELSE cw
    IN  IF ns = ST_FINISHED
        THEN task_destroy(
                [ca EXCEPT !.device_needs_reset =
                    @ \/ (/\ t2.status = ST_SEND_DONE
                          /\ t2.need_ack /\ ~t2.has_received_ack)], i)
        ELSE [ca EXCEPT !.e.tasks[i].status = ns]

\* A body of the task loop that delivers the timer before the frame.
TaskStep_TimerFirst(c, i, pk, now, rc) ==
    task_settle(
        task_pktrcvd(
            task_wakeup([c EXCEPT !.new_status = c.e.tasks[i].status],
                        i, now, rc),
            i, pk, now),
        i)

\* The body of the task loop of do_events for slot i: frame delivery, then the
\* timer, then the assertion, then destruction or the new status.
TaskStep(c, i, pk, now, rc) ==
    task_settle(task_wakeup(task_pktrcvd(c, i, pk, now), i, now, rc), i)

\* for (Task* tsk = tskhead; tsk != nullptr; tsk = tsknext): the slots in array
\* order, a task created during the loop in a later slot included.
RECURSIVE TaskLoop(_, _, _, _, _)
TaskLoop(c, i, pk, now, rcs) ==
    IF i > DEFAULT_MAX_TASK_COUNT THEN c
    ELSE TaskLoop(TaskStep(c, i, pk, now, rcs[i]), i + 1, pk, now, rcs)

\* A sleep test that does not count the tasks subscribed to the timer.
is_eligible_for_sleep_AnyTimer(e) ==
    Cardinality({i \in Slots : e.tasks[i].evtsub_pktrcvd}) = 1

\* The sleep test that ends do_events.
is_eligible_for_sleep(e) ==
    /\ Cardinality({i \in Slots : e.tasks[i].evtsub_pktrcvd}) = 1
    /\ Cardinality({i \in Slots : e.tasks[i].evtsub_wakeup}) = 0
    /\ Cardinality({i \in Slots : /\ ~e.tasks[i].evtsub_wakeup
                                   /\ e.tasks[i].status # ST_NOTHING}) = 1

\* bool i_want_to_receive of do_events: a task waits for frames and there is
\* a function to read them with.
wants_to_receive(e) ==
    /\ \E i \in Slots : e.tasks[i].evtsub_pktrcvd
    /\ e.funcs.deviceReceive

\* The first step of do_events: the scan of the tasks and what it does to the
\* interrupt.
scan_tasks(c) == IF wants_to_receive(c.e) THEN interrupts_on(c) ELSE c

\* do_events before its task loop: the interrupt is armed if a task waits for
\* frames, the frame is read from the device if the interrupt fired, checked
\* and looked up in the packet-id cache.  The result is c.got_a_pkt and c.seen.
device_read(c, now, rx) ==
    LET i_want_to_receive == wants_to_receive(c.e)
        c1 == scan_tasks(c)
        nb == IF i_want_to_receive /\ ~rx.null
              THEN Min(nb_bytes(rx), HeaderLen + c.e.max_payload_len) ELSE 0
        got == /\ c1.e.interrupted /\ i_want_to_receive
               /\ check_rcvd_pkt_is_ok(rx, c.e.max_payload_len, nb)
        c2 == IF c1.e.interrupted
              THEN [interrupts_on(interrupts_off(c1)) EXCEPT
                        !.e.interrupted = FALSE,
                        !.ev.received = i_want_to_receive,
                        !.got_a_pkt = got]
              ELSE [c1 EXCEPT !.got_a_pkt = FALSE]
    IN  IF got
        THEN [check_pktid_already_seen(c2, rx.src, rx.pktid, now)
                  EXCEPT !.ev.drained = rx]
        ELSE [c2 EXCEPT !.seen = FALSE]

\* A reset that does not look at the time of the last one.
device_reset_NoDelay(c4, now) ==
    IF c4.device_needs_reset
    THEN [c4 EXCEPT !.e.last_device_reset = now, !.ev.reset = TRUE,
                    !.ev.devreset = TRUE]
    ELSE c4

\* do_events after its task loop: the device reset a task asked for.
\* c.ev.devreset tells that this branch called deviceInit(nullptr, true).
device_reset(c4, now) ==
    IF /\ c4.device_needs_reset
       /\ (now - c4.e.last_device_reset) % MtimeMod >= MIN_DEVICE_RESET_DELAY
    THEN [c4 EXCEPT !.e.last_device_reset = now, !.ev.reset = TRUE,
                    !.ev.devreset = TRUE]
    ELSE c4

\* The end of do_events: the device is put to sleep.
device_sleep(c5) ==
    IF is_eligible_for_sleep(c5.e) /\ c5.e.auto_sleep
    THEN [c5 EXCEPT !.ev.reset = TRUE, !.ev.slept = TRUE]
    ELSE c5

\* do_events up to the sleep test: the drain, the task loop, the device
\* reset.
before_sleep(c, now, rcs, rx) ==
    device_reset(
        TaskLoop([device_read(c, now, rx) EXCEPT
                    !.device_needs_reset = FALSE], 1, rx, now, rcs),
        now)

\* RFLink::do_events.  rx is the frame waiting in the radio (NullPkt: none),
\* rcs[i] what deviceSend returns to the task of slot i.  c.ev.received tells
\* that deviceReceive was called, c.ev.reset that deviceInit(nullptr, true) was.
do_events(c, now, rcs, rx) ==
    IF ~c.e.funcs.deviceInit THEN c
    ELSE device_sleep(before_sleep(c, now, rcs, rx))

\* -------------------------------------------------------------------- API
\* A packet-id counter wider than pktid_t.
next_pktid_Wide(last_pktid) == last_pktid + 1

\* ++last_pktid, of type pktid_t.
next_pktid(last_pktid) == (last_pktid + 1) % Mod16

\* RFLink::send_noblock.  data is the payload (<<>> for nullptr), len the
\* length argument.  The result is c.ret, and c.slot the task's slot;
\* c.ev.null_copy tells that the assertion of prepare_for_sending() does not
\* hold: a build with assertions stops there, one without copies from
\* address 0.
send_noblock(c, dst, data, len, ack, now) ==
    IF ~c.e.funcs.deviceInit THEN [c EXCEPT !.ret = ERR_DEVICE_NOT_REGISTERED]
    ELSE IF ~c.e.funcs.deviceSend
    THEN [c EXCEPT !.ret = ERR_SEND_FUNC_NOT_REGISTERED]
    ELSE IF len > c.e.max_payload_len
    THEN [c EXCEPT !.ret = ERR_SEND_DATA_LEN_ABOVE_LIMIT]
    ELSE IF len = 0 /\ data # <<>>
    THEN [c EXCEPT !.ret = ERR_SEND_BAD_ARGUMENTS]
    ELSE LET c1 == task_create(c, ST_SEND, now)
             i  == c1.slot
             sched == IF ack THEN snd_expack_sched ELSE snd_sched
             pktid == next_pktid(c.e.last_pktid)
             h == [dst |-> dst, src |-> c.e.device_addr,
                   flags |-> to_flags(0, IF ack THEN FLAG_SIN ELSE FLAG_NONE),
                   pktid |-> pktid, len |-> len]
         IN  IF i = 0 THEN [c1 EXCEPT !.ret = ERR_UNABLE_TO_CREATE_TASK]
             ELSE [c1 EXCEPT
                    !.e.tasks[i] =
                        [@ EXCEPT
                            !.evtsub_wakeup = TRUE,
                            !.nb_send_schedules = Len(sched),
                            !.send_schedule_ptr = sched,
                            !.send_schedule_pos = 0,
                            !.mtime_wakeup = c1.e.tasks[i].mtime_ref + sched[1],
                            !.need_ack = ack,
                            !.evtsub_pktrcvd = ack,
                            !.pkt = prepare_for_sending(c.e.max_payload_len,
                                                        h, data, c.at_null)],
                    !.ev.null_copy = ~prepare_for_sending_args_ok(h, data),
                    !.e.last_pktid = pktid,
                    !.ret = ERR_TASK_CREATED_OK]

\* RFLink::send_get_final_status.  The result is c.ret.
send_get_final_status(c, taskid, now) ==
    LET i == get_task_by_taskid(c.e, taskid)
    IN  IF i = 0 THEN [c EXCEPT !.ret = ERR_UNKNOWN_TASKID]
        ELSE LET t == c.e.tasks[i]
             IN  IF t.status # ST_SEND_DONE
                 THEN [c EXCEPT !.ret = ERR_TASK_UNDERWAY]
                 ELSE [c EXCEPT
                        !.ret = IF t.need_ack /\ t.has_received_ack THEN ERR_OK
                                ELSE IF t.need_ack THEN ERR_SEND_NO_ACK_RCVD
                                ELSE t.last_retcode,
                        !.e.tasks[i].evtsub_wakeup = TRUE,
                        !.e.tasks[i].mtime_wakeup = now]

\* struct RXConfig; sender and timeout mean something only when def_sender and
\* def_timeout are set.  NoCfg is the nullptr default.
NoCfg == [null |-> TRUE, sender |-> 0, def_sender |-> FALSE,
          def_timeout |-> FALSE, timeout |-> 0]

\* RFLink::receive_noblock.  The result is c.ret, and c.slot the task's slot.
receive_noblock(c, cfg, now) ==
    IF ~c.e.funcs.deviceInit THEN [c EXCEPT !.ret = ERR_DEVICE_NOT_REGISTERED]
    ELSE IF ~c.e.funcs.deviceReceive
    THEN [c EXCEPT !.ret = ERR_RECEIVE_FUNC_NOT_REGISTERED]
    ELSE LET c1 == task_create(c, ST_RECEIVE, now)
             i  == c1.slot
         IN  IF i = 0 THEN [c1 EXCEPT !.ret = ERR_UNABLE_TO_CREATE_TASK]
             ELSE [c1 EXCEPT
                    !.e.tasks[i] =
                        [@ EXCEPT
                            !.evtsub_pktrcvd = TRUE,
                            !.evtsub_wakeup =
                                IF ~cfg.null /\ cfg.def_timeout THEN TRUE ELSE @,
                            !.mtime_wakeup =
                                IF ~cfg.null /\ cfg.def_timeout
                                THEN (c1.e.tasks[i].mtime_ref + cfg.timeout)
                                        % MtimeMod
                                ELSE @],
                    !.ret = ERR_TASK_CREATED_OK]

\* RFLink::data_retrieve for the task of slot i (0: nullptr), into a buffer of
\* buf_len bytes.  The result is c.ret (a status); c.buf is what copy_data put
\* into the buffer and c.sender the *sender output.
data_retrieve(c, i, buf_len, now) ==
    IF i = 0 THEN [c EXCEPT !.ret = ST_NOTHING]
    ELSE IF c.e.tasks[i].status # ST_RECEIVE_DATA_AVAILABLE
    THEN [c EXCEPT !.ret = c.e.tasks[i].status]
    ELSE LET t  == c.e.tasks[i]
             c1 == data_retrieved_post(c, i)
             c2 == [c1 EXCEPT !.e.tasks[i].status = ST_RECEIVE_DATA_RETRIEVED]
             c3 == send_ack(c2, i, now)
         IN  [c3 EXCEPT !.ret = ST_RECEIVE_DATA_RETRIEVED,
                        !.buf = copy_data(t.pkt, buf_len),
                        !.sender = t.pkt.src]

\* ------------------------------------------------------------------ state
VARIABLES
    eng,    \* eng[n]: the RFLink object of device n (and its `interrupted` flag)
    radio,  \* radio[n]: the frame waiting in the radio of device n, or NullPkt
    clock,  \* millis()
    app,    \* app[n]: where the sketch of device n is, and what its calls returned
    hist    \* observations of what happened (no effect on the program)

vars == <<eng, radio, clock, app, hist>>

\* The RFLink object after the constructor, register_funcs() and
\* set_opt_byte(OPT_ADDRESS, addr), as setup() of the sketches leaves it.
InitEng(addr) ==
    [device_addr |-> addr,
     max_payload_len |-> MAX_PAYLOAD,
     max_task_count |-> DEFAULT_MAX_TASK_COUNT,
     task_count |-> 0,
     last_pktid |-> 0,
     last_taskid |-> 0,
     receive_data_avail_delay |-> DEFAULT_RECEIVE_DATA_AVAIL_DELAY,
     receive_purge_delay |-> DEFAULT_RECEIVE_PURGE_DELAY,
     send_purge_delay |-> DEFAULT_SEND_PURGE_DELAY,
     last_device_reset |-> 0,
     interrupted |-> FALSE,
     interrupt_is_attached |-> FALSE,
     auto_sleep |-> FALSE,
     funcs |-> [deviceInit |-> TRUE, deviceSend |-> TRUE,
                deviceReceive |-> TRUE],
     tasks |-> [i \in Slots |-> FreshTask],
     cache |-> [i \in CacheIdx |-> FreshCacheEntry],
     oob_write |-> FALSE,
     oob_task |-> FALSE]

\* The sketch of a device: pc is where it is ("idle": in loop(), between two
\* calls), api the last call it made, taskid the id that call got, ret what the
\* call returned, buf and sender what receive() wrote for the caller.  slot and
\* exp, ready are observations: the slot the call's task was really created
\* in, the code send() owes for that task, and whether the other device had a
\* task in ST_RECEIVE when send() was called.
InitApp ==
    [pc |-> "idle", api |-> "none", taskid |-> 0, slot |-> 0,
     ret |-> ERR_UNDEFINED, exp |-> ERR_UNDEFINED, ready |-> FALSE,
     buf |-> <<>>, sender |-> 0, buf_len |-> 0, creates |-> 0]

\* Observation counters are functions that grow a key at a time.
Empty == [k \in {} |-> 0]
Cnt(f, k) == IF k \in DOMAIN f THEN f[k] ELSE 0
Inc(f, k) == IF k \in DOMAIN f THEN [f EXCEPT ![k] = Bump(@)] ELSE f @@ (k :> 1)
Zero(f, ks) == [k \in DOMAIN f |-> IF k \in ks THEN 0 ELSE f[k]]

InitHist ==
    [arrivals |-> 0,      \* frames the environment put on a radio
     drained |-> Empty,   \* <<src, pktid>>: valid data frames do_events obtained
     delivered |-> Empty, \* <<src, pktid>>: tasks that entered DATA_AVAILABLE
     delivSince |-> Empty,\* the same, since the cache last lost <<src, pktid>>
     retrieved |-> Empty, \* <<src, pktid>>: payloads handed to the application
     ackDue |-> Empty,    \* <<src, pktid>>: retrievals and repeats re-acknowledged
     ackTx |-> Empty,     \* <<src, pktid>>: ACK frames handed to deviceSend
     ackSeen |-> {},      \* <<src, pktid>> of the valid ACK frames obtained
                          \* since the packet-id was given to a task
     badAck |-> FALSE,    \* a task was marked by an ACK from another device
     lateAck |-> {},      \* packet-ids of tasks marked after their schedule ended
     okLate |-> FALSE,    \* send_get_final_status gave ERR_OK for such a task
     dupUnacked |-> FALSE,\* a repeated SIN copy was consumed, no ACK task made
     bcastAck |-> FALSE,  \* an ACK task was created for a broadcast frame
     noAck |-> FALSE,     \* a retrieval of a SIN frame created no ACK task
     filt |-> [i \in Slots |-> 0],  \* slot: the rx_config sender asked for
     tmo |-> [i \in Slots |-> -1], \* slot: the rx_config timeout, -1 for none
     badFilt |-> FALSE,   \* a task accepted a frame from another sender
     sent |-> Empty,      \* <<src, pktid>>: the payload send()/send_noblock() took
     got |-> {},          \* what receive() handed to the application
     lost |-> FALSE,      \* a transmitted frame did not reach the other radio
     dataTx |-> Empty,    \* packet-id: data frames handed to deviceSend
     lastRc |-> Empty,    \* packet-id: what deviceSend returned for the last one
     resets |-> <<>>,     \* the times of the device resets after a missing ACK
     args |-> [len |-> 0, null |-> TRUE],  \* len and data == nullptr of the
                          \* last send_noblock()
     asserted |-> FALSE,  \* an assert(false) of do_events() was reached
     obs |-> [n |-> 0, src |-> 0, pktid |-> 0, seen |-> FALSE,
              ack |-> FALSE, took |-> 0],
                          \* the last call of check_pktid_already_seen: its
                          \* rank, its arguments, what it returned, whether
                          \* the frame was an ACK, the slot that accepted it
     evicted |-> {},      \* sources whose entry went to another source, and
                          \* that were not looked up since
     lateTook |-> FALSE,  \* a task accepted a frame in a do_events() in which
                          \* its timer was due
     seqTx |-> {},        \* the frames handed to deviceSend in a do_events()
                          \* whose frames are looked at: ACK or data, with
                          \* SIN or not, the rank among the transmissions of
                          \* its packet, the flags byte
     recpkt |-> NullPkt,  \* what deviceReceive wrote into recpkt, in a
                          \* do_events() that is followed statement by statement
     dueAck |-> FALSE,    \* a task in ST_SEND was marked by an ACK in a
                          \* do_events() in which its timer was due
     last |-> Empty]      \* source: the last frame obtained from it (packet-id,
                          \* ACK or data, consumed by a task or not), until the
                          \* cache drops the entry of that source

Init ==
    /\ eng = [n \in Nodes |-> InitEng(AddrOf(n))]
    /\ radio = [n \in Nodes |-> NullPkt]
    /\ clock = 0
    /\ app = [n \in Nodes |-> InitApp]
    /\ hist = InitHist

\* ------------------------------------------------------------ observation
IsAckFrame(f) == HasBit(flags_opt(f.flags), FLAG_ACK)
HasSin(f) == HasBit(flags_opt(f.flags), FLAG_SIN)
KeyOf(f) == <<f.src, f.pktid>>

RECURSIVE CountAckTx(_, _)
CountAckTx(f, tx) ==
    IF tx = <<>> THEN f
    ELSE CountAckTx(IF IsAckFrame(tx[1].f)
                    THEN Inc(f, <<tx[1].f.dst, tx[1].f.pktid>>) ELSE f,
                    Tail(tx))

\* The data frames of tx, counted by packet-id, and what deviceSend returned
\* for the last of each.
Add(f, k) == IF k \in DOMAIN f THEN [f EXCEPT ![k] = @ + 1] ELSE f @@ (k :> 1)

RECURSIVE CountDataTx(_, _)
CountDataTx(f, tx) ==
    IF tx = <<>> THEN f
    ELSE CountDataTx(IF IsAckFrame(tx[1].f) THEN f ELSE Add(f, tx[1].f.pktid),
                     Tail(tx))

RECURSIVE LastRcOf(_, _)
LastRcOf(f, tx) ==
    IF tx = <<>> THEN f
    ELSE LastRcOf(IF IsAckFrame(tx[1].f) THEN f
                  ELSE (tx[1].f.pktid :> tx[1].rc) @@ f,
                  Tail(tx))

\* hist after a do_events() that started from the context c0 and ended as c.
Observe(h, c0, c) ==
    LET pre   == c0.e
        f     == c.ev.drained
        k     == KeyOf(f)
        lost  == {x \in DOMAIN h.delivSince :
                    \/ x[1] \in c.ev.dropped
                    \/ ~f.null /\ x[1] = f.src /\ x[2] # f.pktid}
        since == Zero(h.delivSince, lost)
        took  == c.ev.delivered # 0
        \* a task that holds the SIN frame consumed a repeated copy of it
        again == /\ c.ev.consumer # 0
                 /\ c.ev.consumer_status \in {ST_RECEIVE_DATA_AVAILABLE,
                                              ST_RECEIVE_DATA_RETRIEVED}
                 /\ HasSin(pre.tasks[c.ev.consumer].pkt)
        reack == again /\ c.ev.consumer_status = ST_RECEIVE_DATA_RETRIEVED
        fail  == c.ev.ackfail /\ ~c0.ev.ackfail
    IN  [h EXCEPT
            !.drained = IF ~f.null /\ ~IsAckFrame(f) THEN Inc(@, k) ELSE @,
            !.ackSeen = IF ~f.null /\ IsAckFrame(f) THEN @ \cup {k} ELSE @,
            !.delivered = IF took THEN Inc(@, k) ELSE @,
            !.delivSince = IF took THEN Inc(since, k) ELSE since,
            !.badFilt = @ \/ (/\ took
                              /\ h.filt[c.ev.delivered] # 0
                              /\ h.filt[c.ev.delivered] # f.src),
            !.badAck = @ \/ (\E i \in c.ev.ackmark : pre.tasks[i].pkt.dst # f.src),
            !.lateAck = @ \cup {pre.tasks[i].pkt.pktid : i \in
                            {x \in c.ev.ackmark :
                                pre.tasks[x].status = ST_SEND_DONE}},
            !.bcastAck = @ \/ (\E j \in 1..Len(c.ev.acks) :
                                c.ev.acks[j].origin_dst = ADDR_BROADCAST),
            !.ackDue = IF reack THEN Inc(@, k) ELSE @,
            !.dupUnacked = @ \/ (/\ again /\ ~fail
                                 /\ Len(c.ev.acks) = Len(c0.ev.acks)),
            !.ackTx = CountAckTx(@, c.tx),
            !.dataTx = CountDataTx(@, c.tx),
            !.lastRc = LastRcOf(@, c.tx)]

\* ------------------------------------------------------------- the radios
Other(n) == IF n = NodeA THEN NodeB ELSE NodeA

\* The address check of the radio (enableAddressCheck in cc1101_init): a frame
\* reaches the device if its first byte is the device's address or broadcast.
RadioAccepts(n, f) == f.dst \in {AddrOf(n), ADDR_BROADCAST}

\* The frame the call put on the air: the first one deviceSend sent with
\* success (the radio is half-duplex).  NullPkt if none.
OnAir(c) ==
    LET ok == SelectSeq(c.tx, LAMBDA x : x.rc = ERR_OK)
    IN  IF ok = <<>> THEN NullPkt ELSE ok[1].f

\* A free slot of tskhead[] keeps what its last task left in the fields that
\* task_initialize() does not reset.  No code reads them before task_create()
\* and the creating call write them again, so the state forgets them.
Forget(e) ==
    [e EXCEPT !.tasks = [i \in Slots |->
                            IF e.tasks[i].status = ST_NOTHING
                            THEN FreshTask ELSE e.tasks[i]]]

\* What becomes of a transmitted frame: it reaches the radio of the other
\* device, it is lost on the way, or (NoPeer) the other device is not a device
\* of the model but part of the world.
Heard == "heard"
Lost == "lost"
NoPeer == "nopeer"
Channel == {Heard, Lost}

\* The end of a step of device n whose do_events() went from the context c0 to
\* c; h is hist as the calls before that do_events() left it.  A frame reaching
\* a radio raises its interrupt line: interrupt_func() runs if the interrupt
\* is attached.  A radio keeps the first frame until it is read.
Commit(n, c0, c, heard, h) ==
    LET f    == OnAir(c)
        m    == Other(n)
        sent == heard # NoPeer /\ ~f.null /\ RadioAccepts(m, f)
        hits == sent /\ heard = Heard
    IN  /\ eng' = [eng EXCEPT
                    ![n] = Forget(c.e),
                    ![m] = IF hits
                           THEN [@ EXCEPT !.interrupted =
                                            @ \/ eng[m].interrupt_is_attached]
                           ELSE @]
        /\ radio' = [radio EXCEPT
                    ![n] = IF c.ev.received \/ c.ev.reset THEN NullPkt ELSE @,
                    ![m] = IF hits /\ radio[m].null THEN f ELSE @]
        /\ hist' = [Observe(h, c0, c) EXCEPT
                        !.lost = @ \/ (sent /\ (~hits \/ ~radio[m].null)),
                        !.resets = IF c.ev.devreset THEN Append(@, clock)
                                   ELSE @,
                        !.asserted = @ \/ c.ev.assert_failed]

\* hist after a send_noblock() that ended as c: the payload its task holds.
NoteSent(h, c) ==
    IF c.ret = ERR_TASK_CREATED_OK
    THEN [h EXCEPT !.sent = (KeyOf(c.e.tasks[c.slot].pkt) :>
                                c.e.tasks[c.slot].pkt.data) @@ @,
                   !.ackSeen = {k \in @ : k[2] # c.e.tasks[c.slot].pkt.pktid}]
    ELSE h

\* hist after a receive_noblock(cfg) that ended as c: the sender asked for.
NoteFilter(h, c, cfg) ==
    IF c.ret = ERR_TASK_CREATED_OK
    THEN [h EXCEPT !.filt[c.slot] =
            IF ~cfg.null /\ cfg.def_sender THEN cfg.sender ELSE 0,
                   !.tmo[c.slot] =
            IF ~cfg.null /\ cfg.def_timeout THEN cfg.timeout ELSE -1]
    ELSE h

\* hist after a data_retrieve() of the task t (as it was before the call) that
\* ended as c.
NoteRetrieved(h, t, c, buf_len) ==
    IF t.status = ST_RECEIVE_DATA_AVAILABLE
    THEN [h EXCEPT
            !.retrieved = Inc(@, KeyOf(t.pkt)),
            !.ackDue = IF HasSin(t.pkt) THEN Inc(@, KeyOf(t.pkt)) ELSE @,
            !.noAck = @ \/ (HasSin(t.pkt) /\ c.ev.acks = <<>>),
            !.got = @ \cup {[src |-> t.pkt.src, pktid |-> t.pkt.pktid,
                             sender |-> c.sender, buf |-> c.buf,
                             buf_len |-> buf_len]}]
    ELSE h

RetCodes == {ERR_OK, ERR_SEND_IO}
Rcs(rc) == [i \in Slots |-> rc]

\* ---------------------------------------------------------------- actions
\* millis() advances.
Tick ==
    /\ clock < MaxClock
    /\ clock' = clock + TimeStep
    /\ UNCHANGED <<eng, radio, app, hist>>

\* A frame sent by some other device reaches the radio of device n, at most
\* max times.
ArriveWithin(n, f, max) ==
    /\ hist.arrivals < max
    /\ radio' = [radio EXCEPT ![n] = IF @.null THEN f ELSE @]
    /\ eng' = [eng EXCEPT ![n].interrupted = @ \/ eng[n].interrupt_is_attached]
    /\ hist' = [hist EXCEPT !.arrivals = @ + 1]
    /\ UNCHANGED <<clock, app>>

Arrive(n, f) == ArriveWithin(n, f, MaxArrivals)

\* An ACK frame sent by some other device reaches the radio of device n.
ArriveAck(n, f) ==
    /\ hist.arrivals < MaxAcks
    /\ radio' = [radio EXCEPT ![n] = IF @.null THEN f ELSE @]
    /\ eng' = [eng EXCEPT ![n].interrupted = @ \/ eng[n].interrupt_is_attached]
    /\ hist' = [hist EXCEPT !.arrivals = @ + 1]
    /\ UNCHANGED <<clock, app>>

\* loop() of a sketch calls do_events().
DoEvents(n, rc, heard) ==
    /\ app[n].pc = "idle"
    /\ LET c == do_events(Ctx(eng[n]), clock, Rcs(rc), radio[n])
       IN  Commit(n, Ctx(eng[n]), c, heard, hist)
    /\ UNCHANGED <<clock, app>>

\* loop() of a sketch calls send_noblock().
SendNoblock(n, dst, data, len, ack) ==
    /\ app[n].pc = "idle"
    /\ app[n].creates < MaxCreates
    /\ LET c == send_noblock(Ctx(eng[n]), dst, data, len, ack, clock)
       IN  /\ eng' = [eng EXCEPT ![n] = c.e]
           /\ app' = [app EXCEPT ![n] =
                        [@ EXCEPT !.api = "send_noblock", !.ret = c.ret,
                                  !.creates = @ + 1, !.slot = c.slot,
                                  !.taskid = IF c.ret = ERR_TASK_CREATED_OK
                                             THEN c.e.tasks[c.slot].taskid
                                             ELSE @]]
           /\ hist' = NoteSent(hist, c)
    /\ UNCHANGED <<radio, clock>>

\* loop() of a sketch calls receive_noblock(), at most max times.
ReceiveNoblockWithin(n, cfg, max) ==
    /\ app[n].pc = "idle"
    /\ app[n].creates < max
    /\ LET c == receive_noblock(Ctx(eng[n]), cfg, clock)
       IN  /\ eng' = [eng EXCEPT ![n] = c.e]
           /\ app' = [app EXCEPT ![n] =
                        [@ EXCEPT !.api = "receive_noblock", !.ret = c.ret,
                                  !.creates = @ + 1, !.slot = c.slot,
                                  !.taskid = IF c.ret = ERR_TASK_CREATED_OK
                                             THEN c.e.tasks[c.slot].taskid
                                             ELSE @]]
           /\ hist' = NoteFilter(hist, c, cfg)
    /\ UNCHANGED <<radio, clock>>

ReceiveNoblock(n, cfg) == ReceiveNoblockWithin(n, cfg, MaxCreates)

\* loop() of a sketch calls send_get_final_status() for its last task.
GetFinalStatus(n) ==
    /\ app[n].pc = "idle"
    /\ app[n].api = "send_noblock"
    /\ app[n].ret \in {ERR_TASK_CREATED_OK, ERR_TASK_UNDERWAY}
    /\ LET c == send_get_final_status(Ctx(eng[n]), app[n].taskid, clock)
       IN  /\ eng' = [eng EXCEPT ![n] = c.e]
           /\ app' = [app EXCEPT ![n].ret = c.ret]
           /\ hist' = [hist EXCEPT !.okLate =
                        @ \/ (/\ c.ret = ERR_OK
                              /\ eng[n].tasks[app[n].slot].pkt.pktid
                                    \in hist.lateAck)]
    /\ UNCHANGED <<radio, clock>>

\* The code send() owes for the task of slot i once it has left ST_SEND.
SendVerdict(t) ==
    IF t.need_ack /\ t.has_received_ack THEN ERR_OK
    ELSE IF t.need_ack THEN ERR_SEND_NO_ACK_RCVD
    ELSE t.last_retcode

\* send(): send_noblock(); without a task it returns at once.
SendCall(n, dst, data, ack) ==
    /\ app[n].pc = "idle"
    /\ app[n].creates < MaxCreates
    /\ LET c == send_noblock(Ctx(eng[n]), dst, data, Len(data), ack, clock)
           ok == c.ret = ERR_TASK_CREATED_OK
       IN  /\ eng' = [eng EXCEPT ![n] = c.e]
           /\ app' = [app EXCEPT ![n] =
                        [@ EXCEPT !.api = "send", !.ret = c.ret, !.exp = c.ret,
                                  !.ready = \E i \in Slots :
                                      eng[Other(n)].tasks[i].status = ST_RECEIVE,
                                  !.creates = @ + 1, !.slot = c.slot,
                                  !.pc = IF ok THEN "send_loop" ELSE "idle",
                                  !.taskid = IF ok THEN c.e.tasks[c.slot].taskid
                                             ELSE @]]
           /\ hist' = NoteSent(hist, c)
    /\ UNCHANGED <<radio, clock>>

\* send(): while (task_get_status(taskid) == ST_SEND) do_events();
SendLoop(n, rc, heard) ==
    /\ app[n].pc = "send_loop"
    /\ task_get_status(eng[n], app[n].taskid) = ST_SEND
    /\ LET c == do_events(Ctx(eng[n]), clock, Rcs(rc), radio[n])
       IN  Commit(n, Ctx(eng[n]), c, heard, hist)
    /\ UNCHANGED <<clock, app>>

\* send(): return send_get_final_status(taskid, nbsend);
SendReturn(n) ==
    /\ app[n].pc = "send_loop"
    /\ task_get_status(eng[n], app[n].taskid) # ST_SEND
    /\ LET c == send_get_final_status(Ctx(eng[n]), app[n].taskid, clock)
       IN  /\ eng' = [eng EXCEPT ![n] = c.e]
           /\ app' = [app EXCEPT ![n] =
                        [@ EXCEPT !.pc = "idle", !.ret = c.ret,
                                  !.exp = SendVerdict(eng[n].tasks[app[n].slot])]]
    /\ UNCHANGED <<radio, clock, hist>>

\* receive(): receive_noblock(); do_events(); without a task it returns.
ReceiveCall(n, cfg, buf_len, rc, heard) ==
    /\ app[n].pc = "idle"
    /\ app[n].creates < MaxCreates
    /\ LET c0 == receive_noblock(Ctx(eng[n]), cfg, clock)
           r  == c0.ret
           ok == r = ERR_TASK_CREATED_OK
           c  == do_events(c0, clock, Rcs(rc), radio[n])
       IN  /\ Commit(n, c0, c, heard, NoteFilter(hist, c0, cfg))
           /\ app' = [app EXCEPT ![n] =
                        [@ EXCEPT !.api = "receive", !.ret = r,
                                  !.creates = @ + 1, !.slot = c0.slot,
                                  !.buf_len = buf_len, !.buf = <<>>,
                                  !.sender = 0,
                                  !.pc = IF ok THEN "receive_loop" ELSE "idle",
                                  !.taskid = IF ok THEN c0.e.tasks[c0.slot].taskid
                                             ELSE @]]
    /\ UNCHANGED clock

\* receive(): while (task_get_status(taskid) == ST_RECEIVE) do_events();
ReceiveLoop(n, rc, heard) ==
    /\ app[n].pc = "receive_loop"
    /\ task_get_status(eng[n], app[n].taskid) = ST_RECEIVE
    /\ LET c == do_events(Ctx(eng[n]), clock, Rcs(rc), radio[n])
       IN  Commit(n, Ctx(eng[n]), c, heard, hist)
    /\ UNCHANGED <<clock, app>>

\* What receive() returns for the status r data_retrieve() gave;
\* ERR_UNDEFINED stands for the two assert(false).
ReceiveResult(r) ==
    IF r \in {ST_RECEIVE_DATA_AVAILABLE, ST_RECEIVE} THEN ERR_UNDEFINED
    ELSE IF r = ST_NOTHING THEN ERR_TIMEOUT
    ELSE IF r = ST_RECEIVE_DATA_RETRIEVED THEN ERR_OK
    ELSE IF r = ST_RECEIVE_TIMEDOUT THEN ERR_TIMEOUT
    ELSE ERR_UNDEFINED

\* receive(): data_retrieve(get_task_by_taskid(taskid), ...); do_events();
\* then the return code.
ReceiveReturn(n, rc, heard) ==
    /\ app[n].pc = "receive_loop"
    /\ task_get_status(eng[n], app[n].taskid) # ST_RECEIVE
    /\ LET i  == get_task_by_taskid(eng[n], app[n].taskid)
           c0 == data_retrieve(Ctx(eng[n]), i, app[n].buf_len, clock)
           r  == c0.ret
           h0 == IF i = 0 THEN hist
                 ELSE NoteRetrieved(hist, eng[n].tasks[i], c0, app[n].buf_len)
           c  == do_events(c0, clock, Rcs(rc), radio[n])
       IN  /\ Commit(n, c0, c, heard, h0)
           /\ app' = [app EXCEPT ![n] =
                        [@ EXCEPT !.pc = "idle", !.ret = ReceiveResult(r),
                                  !.buf = c0.buf, !.sender = c0.sender]]
    /\ UNCHANGED clock

\* ------------------------------------------------ one device and the world
DataFrame(dst, src, opt, pktid) ==
    MkPkt(dst, src, to_flags(1, opt), pktid, 1, <<1>>)
AckFrame(dst, src, pktid) == MkPkt(dst, src, to_flags(1, FLAG_ACK), pktid, 0, <<>>)
\* A frame whose length byte disagrees with its size.
BadFrame == MkPkt(AddrB, AddrA, to_flags(1, FLAG_SIN), 3, 2, <<1>>)

CfgSender(a) == [null |-> FALSE, sender |-> a, def_sender |-> TRUE,
                 def_timeout |-> FALSE, timeout |-> 0]
CfgTimeout(d) == [null |-> FALSE, sender |-> 0, def_sender |-> FALSE,
                  def_timeout |-> TRUE, timeout |-> d]
Cfgs == {NoCfg, CfgSender(AddrA)}

Payload == <<1>>

\* The frames other devices send to a receiving NodeB: two acknowledged data
\* frames of the device AddrA, a broadcast of the device AddrC with SIN, a
\* data frame without SIN, an invalid frame and an ACK.
RecvFrames ==
    {DataFrame(AddrB, AddrA, FLAG_SIN, 1),
     DataFrame(AddrB, AddrA, FLAG_SIN, 2),
     DataFrame(ADDR_BROADCAST, AddrC, FLAG_SIN, 1),
     DataFrame(AddrB, AddrC, FLAG_NONE, 2),
     BadFrame,
     AckFrame(AddrB, AddrA, 1)}

\* NodeB runs a sketch that receives; the other devices are the environment.
NextRecv ==
    \/ Tick
    \/ \E f \in RecvFrames : Arrive(NodeB, f)
    \/ DoEvents(NodeB, ERR_OK, NoPeer)
    \/ ReceiveNoblock(NodeB, NoCfg)
    \/ \E cfg \in Cfgs : ReceiveCall(NodeB, cfg, MAX_PAYLOAD, ERR_OK, NoPeer)
    \/ ReceiveLoop(NodeB, ERR_OK, NoPeer)
    \/ ReceiveReturn(NodeB, ERR_OK, NoPeer)

SpecRecv == Init /\ [][NextRecv]_vars

\* The frames other devices send to a sending NodeB: ACKs of the device it
\* sends to, for its first and its second packet-id, and an ACK of a third
\* device.
SendFrames ==
    {AckFrame(AddrB, AddrA, 1),
     AckFrame(AddrB, AddrA, 2),
     AckFrame(AddrB, AddrC, 1)}

\* NodeB runs a sketch that sends to AddrA; the other devices are the
\* environment.
NextSend ==
    \/ Tick
    \/ \E f \in SendFrames : ArriveAck(NodeB, f)
    \/ DoEvents(NodeB, ERR_OK, NoPeer)
    \/ \E ack \in BOOLEAN : SendNoblock(NodeB, AddrA, Payload, 1, ack)
    \/ GetFinalStatus(NodeB)
    \/ \E ack \in BOOLEAN : SendCall(NodeB, AddrA, Payload, ack)
    \/ \E rc \in RetCodes : SendLoop(NodeB, rc, NoPeer)
    \/ SendReturn(NodeB)

SpecSend == Init /\ [][NextSend]_vars

\* The same device after 65534 tasks: the task counter is about to wrap.
InitWrap ==
    /\ eng = [n \in Nodes |->
                [InitEng(AddrOf(n)) EXCEPT !.last_taskid = Mod16 - 2]]
    /\ radio = [n \in Nodes |-> NullPkt]
    /\ clock = 0
    /\ app = [n \in Nodes |-> InitApp]
    /\ hist = InitHist

SpecWrap == InitWrap /\ [][NextSend]_vars

\* ------------------------------------------------------------ two devices
\* One payload of each length: the bytes 1, 2, ...
Payloads == {[i \in 1..l |-> i] : l \in 0..MAX_PAYLOAD}
BufLens == {1, MAX_PAYLOAD}

\* The sketch of NodeA calls send(AddrB, data, len, true).
LinkSend(data) ==
    /\ app[NodeA].creates < MaxSends
    /\ SendCall(NodeA, AddrB, data, TRUE)

\* NodeA runs a sketch that sends to NodeB with send(), NodeB one that
\* receives with receive() or receive_noblock().
NextLink ==
    \/ Tick
    \/ \E data \in Payloads : LinkSend(data)
    \/ \E heard \in Channel : SendLoop(NodeA, ERR_OK, heard)
    \/ SendReturn(NodeA)
    \/ ReceiveNoblock(NodeB, NoCfg)
    \/ \E len \in BufLens, heard \in Channel :
            ReceiveCall(NodeB, NoCfg, len, ERR_OK, heard)
    \/ \E heard \in Channel : ReceiveLoop(NodeB, ERR_OK, heard)
    \/ \E heard \in Channel : ReceiveReturn(NodeB, ERR_OK, heard)

SpecLink == Init /\ [][NextLink]_vars

\* ------------------------------------------------------ receiving: claims
Keys(f) == DOMAIN f
TasksOf(n) == eng[n].tasks

\* The cache holds <<src, pktid>> at time now: a used entry of that source,
\* not older than the discard delay, whose last packet-id is pktid.
CacheHolds(cache, src, pktid, now) ==
    \E i \in CacheIdx :
        /\ cache[i].used
        /\ now - cache[i].mtime < CACHE_PKTID_DISCARD_DELAY
        /\ cache[i].src = src
        /\ cache[i].last_pktid_seen = pktid

\* A frame the radio can hand over whole and whose length byte is true.
ValidFrame(f) ==
    /\ ~f.null
    /\ f.len <= MAX_PAYLOAD
    /\ Len(f.data) = f.len

C4_AckOnRetrieval == ~hist.noAck

\* C8: a task enters RECEIVE_DATA_AVAILABLE only in a do_events whose frame is
\* valid, is not an ACK, and has a <<source, packet-id>> the cache did not
\* hold when the frame was obtained; the task then holds that frame.
C8_ReceiveOnlyFreshValidData ==
    [][\A i \in Slots :
        (/\ TasksOf(NodeB)[i].status # ST_RECEIVE_DATA_AVAILABLE
         /\ TasksOf(NodeB)'[i].status = ST_RECEIVE_DATA_AVAILABLE)
        => /\ ValidFrame(radio[NodeB])
           /\ ~IsAckFrame(radio[NodeB])
           /\ ~CacheHolds(eng[NodeB].cache, radio[NodeB].src,
                          radio[NodeB].pktid, clock)
           /\ TasksOf(NodeB)'[i].pkt = radio[NodeB]]_vars

C8_Witness ==
    \E i \in Slots :
        /\ TasksOf(NodeB)[i].status = ST_RECEIVE_DATA_AVAILABLE
        /\ TasksOf(NodeB)[i].pkt.src = AddrC
        /\ CacheHolds(eng[NodeB].cache, AddrA, 2, clock)

\* C9: a RECEIVE task created with rx_config {sender: S} takes no frame whose
\* source is not S.
C9_SenderFilter == ~hist.badFilt

\* C10: no ACK task is created for a frame whose destination is 0xFF.
C10_NoAckForBroadcast == ~hist.bcastAck

\* -------------------------------------------------------- sending: claims
\* The task of the last send()/send_noblock() of the sketch of device n.
AppTask(n) == eng[n].tasks[app[n].slot]

\* C5: once send() has created its task, it returns ERR_OK if an ACK was asked
\* for and received, ERR_SEND_NO_ACK_RCVD if an ACK was asked for and none
\* came, the return code of the last deviceSend otherwise; never
\* ERR_TASK_UNDERWAY nor ERR_UNKNOWN_TASKID.
C5_SendResult ==
    \A n \in Nodes :
        (app[n].api = "send" /\ app[n].pc = "idle" /\ app[n].slot # 0)
        => /\ app[n].ret = app[n].exp
           /\ app[n].ret \notin {ERR_TASK_UNDERWAY, ERR_UNKNOWN_TASKID}

\* C6, as the spec states it: a task that asked for an ACK and whose final
\* status is OK got its ACK before its schedule ended.
C6_AckBeforeScheduleEnd == ~hist.okLate

\* C6, as the code has it: send_get_final_status() and send() give ERR_OK for a
\* task that asked for an ACK only if a valid ACK frame with the task's
\* packet-id was obtained since the task was created, in ST_SEND or, the
\* schedule over, in ST_SEND_DONE.
C6_OkOnlyAfterAck ==
    [][\A n \in Nodes :
        (/\ app'[n].api \in {"send", "send_noblock"}
         /\ app[n].ret # ERR_OK
         /\ app'[n].ret = ERR_OK
         /\ app[n].slot # 0
         /\ AppTask(n).need_ack)
        => \E k \in hist.ackSeen : k[2] = AppTask(n).pkt.pktid]_vars

C6_Witness ==
    /\ hist.okLate
    /\ app[NodeB].api = "send_noblock"
    /\ app[NodeB].ret = ERR_OK
    /\ \E k \in hist.ackSeen : k[2] \in hist.lateAck

\* C7: a task is marked has_received_ack only by an ACK whose packet-id is the
\* task's and whose source is the address the task's packet went to.
C7_AckMatchedBySourceAndId == ~hist.badAck

\* ---------------------------------------------------- two devices: claims
\* send() of NodeA has returned for a task it created.
SendDone(n) == app[n].api = "send" /\ app[n].pc = "idle" /\ app[n].slot # 0

\* What receive() handed over is the payload sent under that packet-id, as
\* much of it as the caller's buffer takes, and the sender's address.
ByteEqual(g) ==
    /\ <<g.src, g.pktid>> \in Keys(hist.sent)
    /\ g.sender = g.src
    /\ g.buf = Prefix(hist.sent[<<g.src, g.pktid>>], g.buf_len)

SchedAck == AckFrame(AddrB, AddrA, 1)

NextSched ==
    \/ Tick
    \/ ArriveAck(NodeB, SchedAck)
    \/ \E rc \in RetCodes : DoEvents(NodeB, rc, NoPeer)
    \/ \E ack \in BOOLEAN : SendNoblock(NodeB, AddrA, Payload, 1, ack)
    \/ GetFinalStatus(NodeB)

SpecSched == Init /\ [][NextSched]_vars

\* The tasks of NodeB that send a data frame: with an ACK asked for, without.
DataTask(i, ack) ==
    /\ TasksOf(NodeB)[i].status \in {ST_SEND, ST_SEND_DONE}
    /\ ~TasksOf(NodeB)[i].is_an_ack
    /\ TasksOf(NodeB)[i].need_ack = ack

\* Data frames of packet-id p handed to deviceSend so far.
Transmitted(p) == Cnt(hist.dataTx, p)

\* C11: a task created with ack = false has handed its frame to deviceSend
\* once per schedule entry passed, the k-th time not before mtime_ref +
\* snd_sched[k]; it is in ST_SEND_DONE exactly when all 4 entries are passed,
\* and send_get_final_status() then returns what the 4th deviceSend returned.
C11_FourTransmits ==
    /\ [](\A i \in Slots : DataTask(i, FALSE) =>
            LET t == TasksOf(NodeB)[i]
            IN  /\ t.send_schedule_ptr = snd_sched
                /\ Transmitted(t.pkt.pktid) = t.send_schedule_pos
                /\ t.send_schedule_pos <= Len(snd_sched)
                /\ (t.status = ST_SEND_DONE)
                        <=> (Transmitted(t.pkt.pktid) = Len(snd_sched)))
    /\ [][\A i \in Slots : DataTask(i, FALSE) =>
            LET t == TasksOf(NodeB)[i]
                p == t.pkt.pktid
            IN  /\ Cnt(hist'.dataTx, p) # Transmitted(p)
                    => /\ Cnt(hist'.dataTx, p) = Transmitted(p) + 1
                       /\ clock >= t.mtime_ref + snd_sched[Transmitted(p) + 1]
                /\ (/\ t.status = ST_SEND_DONE
                    /\ app[NodeB].slot = i
                    /\ app'[NodeB].creates = app[NodeB].creates
                    /\ app'[NodeB].ret # app[NodeB].ret)
                    => app'[NodeB].ret = hist.lastRc[p]]_vars

C11_Witness ==
    /\ app[NodeB].api = "send_noblock"
    /\ app[NodeB].ret = ERR_SEND_IO
    /\ app[NodeB].slot # 0
    /\ DataTask(app[NodeB].slot, FALSE)
    /\ AppTask(NodeB).status = ST_SEND_DONE
    /\ Transmitted(AppTask(NodeB).pkt.pktid) = Len(snd_sched)
    /\ hist.lastRc[AppTask(NodeB).pkt.pktid] = ERR_SEND_IO

\* C12: a task created with ack = true hands its frame to deviceSend at the
\* first 4 entries of snd_expack_sched only, the k-th time not before
\* mtime_ref + snd_expack_sched[k]; the wake-up of the last entry (900) hands
\* nothing to deviceSend and puts the task, which got no ACK so far, in
\* ST_SEND_DONE.
C12_ListenWindow ==
    /\ [](\A i \in Slots : DataTask(i, TRUE) =>
            LET t == TasksOf(NodeB)[i]
                last == Len(snd_expack_sched)
            IN  /\ t.send_schedule_ptr = snd_expack_sched
                /\ t.send_schedule_pos <= last
                /\ Transmitted(t.pkt.pktid) = Min(t.send_schedule_pos, last - 1)
                /\ t.status = ST_SEND
                        => t.send_schedule_pos < last /\ ~t.has_received_ack
                /\ t.send_schedule_pos = last => t.status = ST_SEND_DONE)
    /\ [][\A i \in Slots : DataTask(i, TRUE) =>
            LET t == TasksOf(NodeB)[i]
                u == TasksOf(NodeB)'[i]
                p == t.pkt.pktid
                last == Len(snd_expack_sched)
            IN  /\ Cnt(hist'.dataTx, p) # Transmitted(p)
                    => /\ Cnt(hist'.dataTx, p) = Transmitted(p) + 1
                       /\ clock >= t.mtime_ref
                                    + snd_expack_sched[Transmitted(p) + 1]
                /\ (/\ t.send_schedule_pos = last - 1
                    /\ u.status # ST_NOTHING
                    /\ u.send_schedule_pos = last)
                    => /\ Cnt(hist'.dataTx, p) = Transmitted(p)
                       /\ clock >= t.mtime_ref + snd_expack_sched[last]
                       /\ t.status = ST_SEND
                       /\ u.status = ST_SEND_DONE]_vars

C12_Witness ==
    \E i \in Slots :
        /\ DataTask(i, TRUE)
        /\ TasksOf(NodeB)[i].status = ST_SEND_DONE
        /\ ~TasksOf(NodeB)[i].has_received_ack
        /\ TasksOf(NodeB)[i].send_schedule_pos = Len(snd_expack_sched)
        /\ Transmitted(TasksOf(NodeB)[i].pkt.pktid) = 4

\* ------------------------------------------------------ the device resets
\* millis() advances, for longer than in the other specifications.
TickLong ==
    /\ clock < MaxResetClock
    /\ clock' = clock + TimeStep
    /\ UNCHANGED <<eng, radio, app, hist>>

\* NodeB runs a sketch that sends to AddrA with send_noblock() and asks for
\* an ACK, which comes for the first packet-id or does not come.
NextReset ==
    \/ TickLong
    \/ ArriveAck(NodeB, SchedAck)
    \/ DoEvents(NodeB, ERR_OK, NoPeer)
    \/ SendNoblock(NodeB, AddrA, Payload, 1, TRUE)
    \/ GetFinalStatus(NodeB)

SpecReset == Init /\ [][NextReset]_vars

\* The task of slot i of NodeB ends in this step as a failed send: it was in
\* ST_SEND_DONE with an ACK asked for and not received, no ACK marks it in
\* this step, and the step destroys it.
AckFailure(i) ==
    /\ TasksOf(NodeB)[i].status = ST_SEND_DONE
    /\ TasksOf(NodeB)[i].need_ack
    /\ ~TasksOf(NodeB)[i].has_received_ack
    /\ TasksOf(NodeB)[i].pkt.pktid \notin hist'.lateAck
    /\ TasksOf(NodeB)'[i].taskid # TasksOf(NodeB)[i].taskid

\* C13: a do_events() resets the device for a missing ACK if and only if it
\* destroys a task that ends as a failed send and at least
\* MIN_DEVICE_RESET_DELAY ms have passed since last_device_reset (0 after
\* the constructor); it then records the time, and two such resets are
\* never less than MIN_DEVICE_RESET_DELAY apart.
C13_ResetAfterAckFailure ==
    /\ [](\A j, k \in 1..Len(hist.resets) :
            j < k => hist.resets[k] - hist.resets[j] >= MIN_DEVICE_RESET_DELAY)
    /\ [][/\ (Len(hist'.resets) # Len(hist.resets))
                <=> /\ \E i \in Slots : AckFailure(i)
                    /\ clock - eng[NodeB].last_device_reset
                            >= MIN_DEVICE_RESET_DELAY
          /\ (Len(hist'.resets) # Len(hist.resets))
                => /\ hist'.resets = Append(hist.resets, clock)
                   /\ eng'[NodeB].last_device_reset = clock
                   /\ radio'[NodeB] = NullPkt]_vars

\* Two resets were made, for two sends that got no ACK.
C13_Witness ==
    /\ Len(hist.resets) = 2
    /\ eng[NodeB].last_device_reset = hist.resets[2]
    /\ eng[NodeB].task_count = 0
    /\ Keys(hist.dataTx) = {1, 2}

\* --------------------------------------------------- the receive timeout
\* A timeout of one clock step, and one beyond half the range of mtime_t
\* (2^31 ms in the code, about 24.9 days).
LongTimeout == MtimeMod \div 2 + TimeStep
TimeoutCfgs == {NoCfg, CfgTimeout(TimeStep), CfgTimeout(LongTimeout)}

\* NodeB runs a sketch that calls receive_noblock() with and without a
\* timeout; a data frame of AddrA may come in.
NextTimeout ==
    \/ Tick
    \/ Arrive(NodeB, DataFrame(AddrB, AddrA, FLAG_NONE, 1))
    \/ DoEvents(NodeB, ERR_OK, NoPeer)
    \/ \E cfg \in TimeoutCfgs : ReceiveNoblock(NodeB, cfg)

SpecTimeout == Init /\ [][NextTimeout]_vars

\* C14: a task leaves ST_RECEIVE either by taking the frame of the radio or
\* for ST_RECEIVE_TIMEDOUT; the latter only if it was created with a timeout
\* T and at least T ms have passed since its creation, whatever T.
C14_TimeoutOnlyAfterT ==
    [][\A i \in Slots :
        (/\ TasksOf(NodeB)[i].status = ST_RECEIVE
         /\ TasksOf(NodeB)'[i].status # ST_RECEIVE)
        => \/ /\ TasksOf(NodeB)'[i].status = ST_RECEIVE_DATA_AVAILABLE
              /\ TasksOf(NodeB)'[i].pkt = radio[NodeB]
           \/ /\ TasksOf(NodeB)'[i].status = ST_RECEIVE_TIMEDOUT
              /\ hist.tmo[i] >= 0
              /\ clock - TasksOf(NodeB)[i].mtime_ref >= hist.tmo[i]]_vars

\* ------------------------------------------- the failures of the entry points
\* RFLink::register_funcs: without deviceInit the payload capacity stays 0.
register_funcs(e, arg_funcs) ==
    [e EXCEPT !.funcs = arg_funcs,
              !.max_payload_len = IF arg_funcs.deviceInit THEN MAX_PAYLOAD
                                  ELSE 0]

\* The driver callbacks a sketch may register.
FuncSets ==
    [deviceInit : BOOLEAN, deviceSend : BOOLEAN, deviceReceive : BOOLEAN]

\* NodeB registered some of the callbacks.
InitArgs ==
    /\ eng \in {[n \in Nodes |-> register_funcs(InitEng(AddrOf(n)), fs)] :
                    fs \in FuncSets}
    /\ radio = [n \in Nodes |-> NullPkt]
    /\ clock = 0
    /\ app = [n \in Nodes |-> InitApp]
    /\ hist = InitHist

\* The (data, len) arguments of send_noblock(): right ones, a length without
\* data, data without a length, a length above the capacity.
ArgCases ==
    {[data |-> <<>>, len |-> 0], [data |-> Payload, len |-> 1],
     [data |-> <<>>, len |-> 1], [data |-> Payload, len |-> 0],
     [data |-> Payload, len |-> MAX_PAYLOAD + 1]}

\* What a read at address 0 may find.
AtNull == {[k \in 1..MAX_PAYLOAD |-> 0], [k \in 1..MAX_PAYLOAD |-> 255]}

\* loop() of a sketch calls send_noblock(dst, a.data, a.len, ack).  Where the
\* assertion of prepare_for_sending() does not hold, a build with assertions
\* stops the program there (asserts), the task created and the packet-id
\* taken; a build without goes on with the bytes at_null.
SendNoblockArgs(n, dst, a, ack, at_null, asserts) ==
    /\ app[n].pc = "idle"
    /\ app[n].creates < MaxCalls
    /\ LET c == send_noblock([Ctx(eng[n]) EXCEPT !.at_null = at_null],
                             dst, a.data, a.len, ack, clock)
           stops == asserts /\ c.ev.null_copy
       IN  /\ eng' = [eng EXCEPT ![n] =
                        IF stops THEN [c.e EXCEPT !.tasks[c.slot].pkt = NullPkt]
                        ELSE c.e]
           /\ app' = [app EXCEPT ![n] =
                        IF stops
                        THEN [@ EXCEPT !.pc = "aborted", !.api = "send_noblock",
                                       !.creates = @ + 1, !.slot = c.slot]
                        ELSE [@ EXCEPT !.api = "send_noblock", !.ret = c.ret,
                                  !.creates = @ + 1, !.slot = c.slot,
                                  !.taskid = IF c.ret = ERR_TASK_CREATED_OK
                                             THEN c.e.tasks[c.slot].taskid
                                             ELSE @]]
           /\ hist' = [(IF stops THEN hist ELSE NoteSent(hist, c)) EXCEPT
                        !.args = [len |-> a.len, null |-> a.data = <<>>]]
    /\ UNCHANGED <<radio, clock>>

NextArgs ==
    \/ Tick
    \/ DoEvents(NodeB, ERR_OK, NoPeer)
    \/ \E a \in ArgCases, ack, asserts \in BOOLEAN, at_null \in AtNull :
            SendNoblockArgs(NodeB, AddrA, a, ack, at_null, asserts)
    \/ \E cfg \in {NoCfg, CfgTimeout(TimeStep)} :
            ReceiveNoblockWithin(NodeB, cfg, MaxCalls)

SpecArgs == InitArgs /\ [][NextArgs]_vars

\* A step is a call of send_noblock() / of receive_noblock() by NodeB.
CallsSend ==
    /\ app'[NodeB].creates # app[NodeB].creates
    /\ app'[NodeB].api = "send_noblock"

CallsReceive ==
    /\ app'[NodeB].creates # app[NodeB].creates
    /\ app'[NodeB].api = "receive_noblock"

\* C15: with the callbacks registered, send_noblock() called with a length
\* above the payload capacity, or with exactly one of len == 0 and
\* data == nullptr, returns ERR_SEND_DATA_LEN_ABOVE_LIMIT or
\* ERR_SEND_BAD_ARGUMENTS and leaves the RFLink object as it was.
C15_BadArgumentsRejected ==
    [][(/\ CallsSend
        /\ eng[NodeB].funcs.deviceInit /\ eng[NodeB].funcs.deviceSend
        /\ \/ hist'.args.len > MAX_PAYLOAD
           \/ (hist'.args.len = 0) # hist'.args.null)
       => /\ app'[NodeB].pc = "idle"
          /\ app'[NodeB].ret \in {ERR_SEND_DATA_LEN_ABOVE_LIMIT,
                                   ERR_SEND_BAD_ARGUMENTS}
          /\ eng'[NodeB] = eng[NodeB]]_vars

\* C16: a send_noblock() or receive_noblock() that returns anything but
\* ERR_TASK_CREATED_OK leaves every task slot, task_count, the last task-id
\* and the last packet-id as they were.
C16_FailedCallChangesNothing ==
    [][(/\ CallsSend \/ CallsReceive
        /\ app'[NodeB].pc = "idle"
        /\ app'[NodeB].ret # ERR_TASK_CREATED_OK)
       => /\ eng'[NodeB].tasks = eng[NodeB].tasks
          /\ eng'[NodeB].task_count = eng[NodeB].task_count
          /\ eng'[NodeB].last_taskid = eng[NodeB].last_taskid
          /\ eng'[NodeB].last_pktid = eng[NodeB].last_pktid]_vars

\* send_noblock() has just failed on a full pool.
C16_Witness ==
    /\ app[NodeB].api = "send_noblock"
    /\ app[NodeB].ret = ERR_UNABLE_TO_CREATE_TASK
    /\ app[NodeB].creates = MaxCalls
    /\ eng[NodeB].task_count = DEFAULT_MAX_TASK_COUNT
    /\ eng[NodeB].last_taskid = DEFAULT_MAX_TASK_COUNT

\* ------------------------------------------------------------ the task pool
\* RFLink::RFLink(maxtask) with ENFORCE_MAX_TASK_COUNT_AT_COMPILE_TIME defined,
\* then register_funcs() and set_opt_byte(OPT_ADDRESS, addr).  The member
\* max_task_count is the argument; the loop over i < max_task_count
\* initialises tskhead[i], inside Task tskhead[DEFAULT_MAX_TASK_COUNT] or not.
RFLink(maxtask, addr) ==
    [InitEng(addr) EXCEPT !.max_task_count = maxtask,
                          !.oob_task = maxtask > DEFAULT_MAX_TASK_COUNT]

\* The sketch declares RFLink rf(maxtask): fewer tasks than the array has,
\* as many (the default), or more.
MaxTasks == {1, DEFAULT_MAX_TASK_COUNT, DEFAULT_MAX_TASK_COUNT + 1}

InitPool ==
    /\ eng \in {[n \in Nodes |-> RFLink(maxtask, AddrOf(n))] :
                    maxtask \in MaxTasks}
    /\ radio = [n \in Nodes |-> NullPkt]
    /\ clock = 0
    /\ app = [n \in Nodes |-> InitApp]
    /\ hist = InitHist

\* NodeB runs a sketch that creates sending and receiving tasks; a data frame
\* of AddrA that asks for an ACK may come in.
NextPool ==
    \/ Tick
    \/ Arrive(NodeB, DataFrame(AddrB, AddrA, FLAG_SIN, 1))
    \/ DoEvents(NodeB, ERR_OK, NoPeer)
    \/ \E ack \in BOOLEAN :
            SendNoblockArgs(NodeB, AddrA, [data |-> Payload, len |-> 1], ack,
                            [k \in 1..MAX_PAYLOAD |-> 0], FALSE)
    \/ ReceiveNoblockWithin(NodeB, NoCfg, MaxCalls)
    \/ GetFinalStatus(NodeB)

SpecPool == InitPool /\ [][NextPool]_vars

LiveSlots(n) == {i \in Slots : TasksOf(n)[i].status # ST_NOTHING}

\* C17: the live tasks are as many as task_count says and are inside the
\* pool of DEFAULT_MAX_TASK_COUNT slots; send_noblock() and receive_noblock()
\* called with every slot live return ERR_UNABLE_TO_CREATE_TASK.
C17_PoolBounded ==
    /\ [](/\ Cardinality(LiveSlots(NodeB)) = eng[NodeB].task_count
          /\ eng[NodeB].task_count <= DEFAULT_MAX_TASK_COUNT
          /\ ~eng[NodeB].oob_task)
    /\ [][(/\ CallsSend \/ CallsReceive
           /\ LiveSlots(NodeB) = Slots)
          => app'[NodeB].ret = ERR_UNABLE_TO_CREATE_TASK]_vars

\* ------------------------------------------------- the timer subscription
\* C18: at every moment, every task of both devices whose status is not
\* ST_RECEIVE, ST_NOTHING or ST_FINISHED is subscribed to the timer, and no
\* do_events() has reached its assert(false).
C18_TimerSubscribed ==
    /\ ~hist.asserted
    /\ \A n \in Nodes, i \in Slots :
        TasksOf(n)[i].status \notin {ST_RECEIVE, ST_NOTHING, ST_FINISHED}
        => TasksOf(n)[i].evtsub_wakeup

\* A task created without a timeout holds a frame, while the sender's task
\* is still there.
C18_Witness ==
    /\ \E i \in Slots :
        /\ TasksOf(NodeB)[i].status = ST_RECEIVE_DATA_AVAILABLE
        /\ hist.tmo[i] = -1
    /\ \E j \in Slots : TasksOf(NodeA)[j].status \in {ST_SEND, ST_SEND_DONE}

\* ------------------------------------------------------ the packet-id cache
\* One source more than the cache has entries, and the frames they send to
\* NodeB: each its packet-id 1, the first source its packet-id 2 as well.
CacheSources == {AddrA + k : k \in 0..PKTID_CACHE_SIZE}
CacheFrames ==
    {DataFrame(AddrB, src, FLAG_NONE, 1) : src \in CacheSources}
        \cup {DataFrame(AddrB, AddrA, FLAG_NONE, 2)}
\* Enough arrivals to fill the cache, replace an entry, and hear the source
\* that lost its entry again.
CacheArrivals == PKTID_CACHE_SIZE + 2

\* An entry check_pktid_already_seen() called at time now treats as used.
InUse(entry, now) ==
    entry.used /\ now - entry.mtime < CACHE_PKTID_DISCARD_DELAY

UsedSources(cache, now) ==
    {cache[i].src : i \in {j \in CacheIdx : InUse(cache[j], now)}}

\* hist after a do_events() that went from c0 to c: the call of
\* check_pktid_already_seen() it made, if any, and the sources that have
\* lost their entry to another source.
NoteSeen(h, c0, c, now) ==
    LET f == c.ev.drained
    IN  IF f.null THEN h
        ELSE [h EXCEPT
                !.obs = [n |-> @.n + 1, src |-> f.src, pktid |-> f.pktid,
                         seen |-> c.seen, ack |-> IsAckFrame(f),
                         took |-> c.ev.delivered],
                !.evicted = (@ \ {f.src})
                    \cup (UsedSources(c0.e.cache, now)
                            \ UsedSources(c.e.cache, now)),
                !.last =
                    LET gone == c.ev.dropped
                                    \cup (UsedSources(c0.e.cache, now)
                                            \ UsedSources(c.e.cache, now))
                    IN  (f.src :> [pktid |-> f.pktid, ack |-> IsAckFrame(f),
                                   consumed |-> c.ev.consumer # 0])
                            @@ [x \in DOMAIN @ \ gone |-> @[x]]]

\* loop() of a sketch calls do_events(); deviceSend succeeds.
DoEventsCache(n) ==
    /\ app[n].pc = "idle"
    /\ LET c == do_events(Ctx(eng[n]), clock, Rcs(ERR_OK), radio[n])
       IN  Commit(n, Ctx(eng[n]), c, NoPeer,
                  NoteSeen(hist, Ctx(eng[n]), c, clock))
    /\ UNCHANGED <<clock, app>>

\* NodeB runs a sketch that receives; the other devices send it frames.
NextCache ==
    \/ Tick
    \/ \E f \in CacheFrames : ArriveWithin(NodeB, f, CacheArrivals)
    \/ DoEventsCache(NodeB)
    \/ ReceiveNoblock(NodeB, NoCfg)

SpecCache == Init /\ [][NextCache]_vars

CacheOf(n) == eng[n].cache

\* C19: at every moment no two used entries of the cache have the same
\* source address.
C19_OneEntryPerSource ==
    \A i, j \in CacheIdx :
        (i # j /\ CacheOf(NodeB)[i].used /\ CacheOf(NodeB)[j].used)
        => CacheOf(NodeB)[i].src # CacheOf(NodeB)[j].src

\* The cache is full, an entry has gone to another source, and the source
\* looked up last already had its entry, with another packet-id.
C19_Witness ==
    /\ \A i \in CacheIdx : CacheOf(NodeB)[i].used
    /\ hist.evicted # {}
    /\ hist.obs.n = CacheArrivals
    /\ hist.obs.src = AddrA /\ hist.obs.pktid = 2 /\ ~hist.obs.seen
    /\ AddrA \notin hist.evicted

\* A step is a do_events() of NodeB that called check_pktid_already_seen().
LooksUp == hist'.obs.n = hist.obs.n + 1

\* Every entry is in use at the time of the step, none for the source src.
FullWithout(src) ==
    \A i \in CacheIdx :
        InUse(CacheOf(NodeB)[i], clock) /\ CacheOf(NodeB)[i].src # src

\* The step gives entry j to the source and packet-id looked up and leaves
\* the other entries alone.
Replaces(j) ==
    /\ CacheOf(NodeB)'[j] = [used |-> TRUE, src |-> hist'.obs.src,
                            mtime |-> clock,
                            last_pktid_seen |-> hist'.obs.pktid]
    /\ \A k \in CacheIdx \ {j} : CacheOf(NodeB)'[k] = CacheOf(NodeB)[k]

\* C20: a lookup for a source without entry, made when every entry is in
\* use, returns false and gives the new source an entry that no other entry
\* is older than, inside the cache; and the lookup of a source that lost its
\* entry that way returns false, whatever the packet-id.
C20_OldestEvicted ==
    /\ [][(LooksUp /\ FullWithout(hist'.obs.src))
          => /\ ~hist'.obs.seen
             /\ eng'[NodeB].oob_write = eng[NodeB].oob_write
             /\ \E j \in CacheIdx :
                    /\ \A k \in CacheIdx :
                        CacheOf(NodeB)[k].mtime >= CacheOf(NodeB)[j].mtime
                    /\ Replaces(j)]_vars
    /\ [][(LooksUp /\ hist'.obs.src \in hist.evicted) => ~hist'.obs.seen]_vars

\* ---------------------------------------------- the cache, call by call
\* millis() advances by half the discard delay of the cache.
HalfDiscard == CACHE_PKTID_DISCARD_DELAY \div 2

TickDiscard ==
    /\ clock < MaxDiscardTicks * HalfDiscard
    /\ clock' = clock + HalfDiscard
    /\ UNCHANGED <<eng, radio, app, hist>>

\* check_pktid_already_seen(src, pktid) on the RFLink object of device n, as
\* do_events() calls it for a valid frame.
Lookup(n, src, pktid) ==
    /\ hist.obs.n < MaxLookups
    /\ LET c == check_pktid_already_seen(Ctx(eng[n]), src, pktid, clock)
       IN  /\ eng' = [eng EXCEPT ![n] = c.e]
           /\ hist' = [hist EXCEPT
                        !.obs = [n |-> @.n + 1, src |-> src, pktid |-> pktid,
                                 seen |-> c.seen, ack |-> FALSE, took |-> 0],
                        !.evicted = (@ \ {src})
                            \cup ((UsedSources(eng[n].cache, clock) \ c.ev.dropped)
                                    \ UsedSources(c.e.cache, clock))]
    /\ UNCHANGED <<radio, clock, app>>

NextLookup ==
    \/ TickDiscard
    \/ \E src \in CacheSources, pktid \in {1, 2} : Lookup(NodeB, src, pktid)

SpecLookup == Init /\ [][NextLookup]_vars

\* The cache of NodeB has, after the step, an entry of the source looked up
\* that holds the packet-id looked up and the time of the call.
Recorded ==
    \E i \in CacheIdx :
        CacheOf(NodeB)'[i] = [used |-> TRUE, src |-> hist'.obs.src,
                             mtime |-> clock,
                             last_pktid_seen |-> hist'.obs.pktid]

\* C21: check_pktid_already_seen(src, pktid) returns true exactly when a used
\* entry of src, not older than the discard delay, holds pktid; and after the
\* call an entry of src holds pktid and the time of the call.
C21_SeenIffHeld ==
    [][LooksUp =>
        /\ hist'.obs.seen <=> CacheHolds(CacheOf(NodeB), hist'.obs.src,
                                         hist'.obs.pktid, clock)
        /\ Recorded]_vars

\* ------------------------------------ the cache and the frames not delivered
\* Every source sends NodeB its packet-id 1, as a data frame and as an ACK.
SeenFrames ==
    {DataFrame(AddrB, src, FLAG_NONE, 1) : src \in CacheSources}
        \cup {AckFrame(AddrB, src, 1) : src \in CacheSources}

\* NodeB runs a sketch that receives with receive_noblock(); its first
\* do_events() may come before or after the first frames.
NextSeen ==
    \/ Tick
    \/ \E f \in SeenFrames : ArriveWithin(NodeB, f, CacheArrivals)
    \/ DoEventsCache(NodeB)
    \/ ReceiveNoblock(NodeB, NoCfg)

SpecSeen == Init /\ [][NextSeen]_vars

\* The step looks up a data frame whose source sent last a frame with the
\* same packet-id, an ACK (ack) or a data frame that no task consumed, and
\* the entry of that source was not dropped since.
RepeatsAfter(ack) ==
    /\ LooksUp
    /\ ~hist'.obs.ack
    /\ hist'.obs.src \in DOMAIN hist.last
    /\ hist.last[hist'.obs.src].pktid = hist'.obs.pktid
    /\ hist.last[hist'.obs.src].ack = ack
    /\ ack \/ ~hist.last[hist'.obs.src].consumed

\* C22: a data frame that follows an ACK frame of the same source and
\* packet-id is reported already seen and no task accepts it.
C22_AckFeedsCache ==
    [][RepeatsAfter(TRUE) => hist'.obs.seen /\ hist'.obs.took = 0]_vars

\* C23: a data frame that follows a data frame of the same source and
\* packet-id which no task consumed is reported already seen and no task
\* accepts it.
C23_UnconsumedFeedsCache ==
    [][RepeatsAfter(FALSE) => hist'.obs.seen /\ hist'.obs.took = 0]_vars

\* ------------------------------------------- frame delivery and the timer
\* The timer of task t is due at time now (part of the test of the task loop).
Due(t, now) == t.evtsub_wakeup /\ elapsed(now, t.mtime_wakeup) >= 0

\* hist after a do_events() that went from c0 to c at time now: whether a
\* task whose timer was due got the frame.
NoteOrder(h, c0, c, now) ==
    [h EXCEPT
        !.lateTook = @ \/ (/\ c.ev.delivered # 0
                           /\ Due(c0.e.tasks[c.ev.delivered], now)),
        !.dueAck = @ \/ (\E i \in c.ev.ackmark :
                            /\ c0.e.tasks[i].status = ST_SEND
                            /\ Due(c0.e.tasks[i], now))]

\* loop() of a sketch calls do_events(); deviceSend succeeds.
DoEventsOrder(n) ==
    /\ app[n].pc = "idle"
    /\ LET c == do_events(Ctx(eng[n]), clock, Rcs(ERR_OK), radio[n])
       IN  Commit(n, Ctx(eng[n]), c, NoPeer,
                  NoteOrder(hist, Ctx(eng[n]), c, clock))
    /\ UNCHANGED <<clock, app>>

\* NodeB runs a sketch that receives with a timeout of one clock step and
\* sends with ACK; a data frame of AddrA and the ACK of the first packet-id
\* may come in.
NextOrder ==
    \/ Tick
    \/ Arrive(NodeB, DataFrame(AddrB, AddrA, FLAG_NONE, 1))
    \/ Arrive(NodeB, SchedAck)
    \/ DoEventsOrder(NodeB)
    \/ ReceiveNoblock(NodeB, CfgTimeout(TimeStep))
    \/ SendNoblock(NodeB, AddrA, Payload, 1, TRUE)

SpecOrder == Init /\ [][NextOrder]_vars

\* The step is a do_events() of NodeB that reads a valid frame from the radio.
Drains ==
    /\ eng[NodeB].interrupted /\ ~eng'[NodeB].interrupted
    /\ radio'[NodeB].null
    /\ ValidFrame(radio[NodeB])

\* The step offers task i, in ST_RECEIVE, a data frame it accepts: the frame
\* is not in the cache and no task in ST_RECEIVE comes before i.
Offered(i) ==
    /\ Drains
    /\ ~IsAckFrame(radio[NodeB])
    /\ ~CacheHolds(CacheOf(NodeB), radio[NodeB].src, radio[NodeB].pktid, clock)
    /\ TasksOf(NodeB)[i].status = ST_RECEIVE
    /\ \A j \in Slots : j < i => TasksOf(NodeB)[j].status # ST_RECEIVE

\* The step marks task i, in ST_SEND, as acknowledged.
Acked(i) ==
    /\ TasksOf(NodeB)[i].status = ST_SEND
    /\ ~TasksOf(NodeB)[i].has_received_ack
    /\ TasksOf(NodeB)'[i].taskid = TasksOf(NodeB)[i].taskid
    /\ TasksOf(NodeB)'[i].has_received_ack

\* C24: a task in ST_RECEIVE offered a frame it accepts ends the do_events()
\* in ST_RECEIVE_DATA_AVAILABLE with that frame, and a task in ST_SEND marked
\* by an ACK ends it in ST_SEND_DONE without having transmitted, whether or
\* not the timer of the task was due.
C24_FrameBeforeTimer ==
    [][\A i \in Slots :
        /\ Offered(i)
            => /\ TasksOf(NodeB)'[i].status = ST_RECEIVE_DATA_AVAILABLE
               /\ TasksOf(NodeB)'[i].pkt = radio[NodeB]
        /\ Acked(i)
            => /\ TasksOf(NodeB)'[i].status = ST_SEND_DONE
               /\ TasksOf(NodeB)'[i].nbsend = TasksOf(NodeB)[i].nbsend
               /\ Cnt(hist'.dataTx, TasksOf(NodeB)[i].pkt.pktid)
                    = Cnt(hist.dataTx, TasksOf(NodeB)[i].pkt.pktid)]_vars

\* Both have happened with the timer due: a task created with a timeout holds
\* a frame it accepted after its deadline, and a task was marked by an ACK at
\* a time of its schedule.
C24_Witness ==
    /\ hist.lateTook /\ hist.dueAck
    /\ \E i \in Slots :
        /\ TasksOf(NodeB)[i].status = ST_RECEIVE_DATA_AVAILABLE
        /\ hist.tmo[i] = TimeStep
    /\ \E i \in Slots :
        /\ TasksOf(NodeB)[i].status = ST_SEND_DONE
        /\ TasksOf(NodeB)[i].has_received_ack

\* ----------------------------------------------------- one consumer a frame
\* Task i, subscribed to frames, consumes the frame in the radio if it is
\* handed it and the cache did not hold it (the tests of tev_received).
Eligible(i) ==
    LET t == TasksOf(NodeB)[i]
        f == radio[NodeB]
    IN  /\ t.evtsub_pktrcvd
        /\ IF IsAckFrame(f)
           THEN /\ t.status \in {ST_SEND, ST_SEND_DONE}
                /\ t.need_ack /\ ~t.has_received_ack
                /\ t.pkt.pktid = f.pktid
           ELSE \/ t.status = ST_RECEIVE
                \/ /\ t.status \in {ST_RECEIVE_DATA_AVAILABLE,
                                    ST_RECEIVE_DATA_RETRIEVED}
                   /\ t.pkt.pktid = f.pktid /\ t.pkt.src = f.src

\* The step made task i consume the frame: a task in ST_RECEIVE holds it
\* afterwards, or a SEND task is marked as acknowledged.
Consumed(i) ==
    LET t == TasksOf(NodeB)[i]
        u == TasksOf(NodeB)'[i]
    IN  /\ u.taskid = t.taskid
        /\ \/ /\ t.status = ST_RECEIVE
              /\ u.status = ST_RECEIVE_DATA_AVAILABLE
              /\ u.pkt = radio[NodeB]
           \/ /\ t.status \in {ST_SEND, ST_SEND_DONE}
              /\ ~t.has_received_ack /\ u.has_received_ack

\* C25: in a do_events() that drains a frame, at most one task consumes it,
\* and no task before the consumer in the order of the pool would have
\* consumed it.
C25_OneConsumer ==
    [][Drains =>
        \A i, j \in Slots :
            i < j => /\ ~(Consumed(i) /\ Consumed(j))
                     /\ Consumed(j) => ~Eligible(i)]_vars

\* The first of two tasks holds a frame it accepted while the second, created
\* before that, was waiting for one too.
C25_Witness ==
    \E i, j \in Slots :
        /\ i < j
        /\ TasksOf(NodeB)[i].status = ST_RECEIVE_DATA_AVAILABLE
        /\ ~TasksOf(NodeB)[i].pkt.null
        /\ TasksOf(NodeB)[j].status \in {ST_RECEIVE, ST_RECEIVE_TIMEDOUT}
        /\ TasksOf(NodeB)[j].mtime_ref < TasksOf(NodeB)[i].mtime_ref

\* ------------------------------------------------- when an ACK is transmitted
\* After the step, slot j holds an ACK task that the step created.
FreshAck(j) ==
    /\ TasksOf(NodeB)'[j].status # ST_NOTHING
    /\ TasksOf(NodeB)'[j].is_an_ack
    /\ TasksOf(NodeB)'[j].taskid # TasksOf(NodeB)[j].taskid

\* Task i holds, retrieved, the SIN frame of which the radio has another copy:
\* tev_received answers that copy with send_ack.
ReAcks(i) ==
    /\ ~IsAckFrame(radio[NodeB])
    /\ TasksOf(NodeB)[i].status = ST_RECEIVE_DATA_RETRIEVED
    /\ TasksOf(NodeB)[i].evtsub_pktrcvd
    /\ KeyOf(TasksOf(NodeB)[i].pkt) = KeyOf(radio[NodeB])
    /\ HasSin(TasksOf(NodeB)[i].pkt)

\* The step is one call of do_events() by the sketch of NodeB (receive() makes
\* its calls inside steps that change app).
OneDoEvents == app' = app /\ eng'[NodeB] # eng[NodeB] /\ clock' = clock

\* C26 as stated: the do_events() that drains a frame does not hand the ACK
\* task it creates for that frame to deviceSend; the ACK is transmitted no
\* earlier than the next do_events().
C26_AckNextTick ==
    [][OneDoEvents =>
        \A j \in Slots : FreshAck(j) => TasksOf(NodeB)'[j].nbsend = 0]_vars

\* C26, amended: a do_events() creates an ACK task only for a repeated copy it
\* drained, for the task that holds the frame retrieved; it hands that ACK to
\* deviceSend itself, once, only if the slot of the ACK task comes after the
\* slot of the holder, and otherwise leaves it to a later do_events().
C26_AckNotBeforeLoopReachesIt ==
    [][OneDoEvents =>
        \A j \in Slots :
            FreshAck(j)
                => /\ Drains
                   /\ \E i \in Slots : i # j /\ ReAcks(i)
                   /\ TasksOf(NodeB)'[j].nbsend \in {0, 1}
                   /\ TasksOf(NodeB)'[j].nbsend = 1
                        => \E i \in Slots : i < j /\ ReAcks(i)]_vars

\* A repeated copy was answered and its ACK transmitted: the ACK task, after
\* the holder of the frame in the pool, has been handed to deviceSend once;
\* the ACK of the retrieval and this one make two.
C26_Witness ==
    \E i, j \in Slots :
        /\ i < j
        /\ TasksOf(NodeB)[i].status = ST_RECEIVE_DATA_RETRIEVED
        /\ TasksOf(NodeB)[j].status = ST_SEND_DONE
        /\ TasksOf(NodeB)[j].is_an_ack
        /\ TasksOf(NodeB)[j].nbsend = 1
        /\ TasksOf(NodeB)[j].pkt.pktid = TasksOf(NodeB)[i].pkt.pktid
        /\ Cnt(hist.ackDue, KeyOf(TasksOf(NodeB)[i].pkt)) >= 2
        /\ Cnt(hist.ackTx, KeyOf(TasksOf(NodeB)[i].pkt)) >= 2

\* ------------------------------------------- the schedule and the clock wrap
\* The device has been running for almost a full turn of millis().
InitLate ==
    /\ eng = [n \in Nodes |-> InitEng(AddrOf(n))]
    /\ radio = [n \in Nodes |-> NullPkt]
    /\ clock = MtimeMod - TimeStep
    /\ app = [n \in Nodes |-> InitApp]
    /\ hist = InitHist

\* millis() advances and wraps.
TickWrap ==
    /\ clock >= MtimeMod - TimeStep \/ clock < MaxClock
    /\ clock' = (clock + TimeStep) % MtimeMod
    /\ UNCHANGED <<eng, radio, app, hist>>

\* NodeB runs a sketch that sends with send_noblock(), with and without ACK,
\* while millis() wraps; deviceSend succeeds or fails, and the ACK of the first
\* packet-id may come in.
NextSchedWrap ==
    \/ TickWrap
    \/ ArriveAck(NodeB, SchedAck)
    \/ \E rc \in RetCodes : DoEvents(NodeB, rc, NoPeer)
    \/ \E ack \in BOOLEAN : SendNoblock(NodeB, AddrA, Payload, 1, ack)

SpecSchedWrap == InitLate /\ [][NextSchedWrap]_vars

\* now - tsk->mtime_ref in mtime_t: the time since the task was created.
SinceRef(t) == (clock - t.mtime_ref) % MtimeMod

\* The step fires the timer of the task t of slot i, in ST_SEND, which makes
\* it u: the schedule moves on by one entry.
Fires(i) ==
    /\ TasksOf(NodeB)[i].status = ST_SEND
    /\ TasksOf(NodeB)'[i].taskid = TasksOf(NodeB)[i].taskid
    /\ TasksOf(NodeB)'[i].send_schedule_pos
            # TasksOf(NodeB)[i].send_schedule_pos

\* C27: the timer of a task in ST_SEND fires for the schedule entry k (handing
\* the frame to deviceSend or ending the schedule in ST_SEND_DONE) only when
\* the time since the task was created has reached the offset of entry k, and
\* the frame is handed to deviceSend at no other moment.
C27_NotBeforeSchedule ==
    [][\A i \in Slots :
        LET t == TasksOf(NodeB)[i]
            u == TasksOf(NodeB)'[i]
        IN  /\ Fires(i)
                => /\ u.send_schedule_pos = t.send_schedule_pos + 1
                   /\ SinceRef(t) >= t.send_schedule_ptr[u.send_schedule_pos]
            /\ (/\ t.status # ST_NOTHING
                /\ u.taskid = t.taskid
                /\ u.nbsend # t.nbsend)
                => Fires(i)
            /\ (/\ t.status = ST_SEND /\ u.taskid = t.taskid
                /\ u.status = ST_SEND_DONE /\ ~u.has_received_ack)
                => /\ Fires(i)
                   /\ u.send_schedule_pos = t.nb_send_schedules
                   /\ SinceRef(t) >= t.send_schedule_ptr[t.nb_send_schedules]]_vars

\* A task created before millis() wrapped has run its schedule to the end
\* after the wrap.
C27_Witness ==
    \E i \in Slots :
        /\ TasksOf(NodeB)[i].status = ST_SEND_DONE
        /\ ~TasksOf(NodeB)[i].has_received_ack
        /\ TasksOf(NodeB)[i].mtime_ref = MtimeMod - TimeStep
        /\ clock < TimeStep * 4
        /\ TasksOf(NodeB)[i].send_schedule_pos
                = TasksOf(NodeB)[i].nb_send_schedules
        /\ TasksOf(NodeB)[i].nbsend = 4

\* ------------------------------------------------ no transmission after ACK
\* The task of slot i has been marked has_received_ack.
Marked(i) ==
    /\ TasksOf(NodeB)[i].status # ST_NOTHING
    /\ TasksOf(NodeB)[i].has_received_ack

\* C28: a task marked has_received_ack is in ST_SEND_DONE, and neither the
\* step that marks it nor any later one hands its frame to deviceSend: nbsend
\* and the count of frames transmitted with its packet-id stay as they are.
C28_NoSendAfterAck ==
    /\ [](\A i \in Slots : Marked(i) =>
            TasksOf(NodeB)[i].status = ST_SEND_DONE)
    /\ [][\A i \in Slots :
            LET t == TasksOf(NodeB)[i]
                u == TasksOf(NodeB)'[i]
            IN  (/\ t.status # ST_NOTHING /\ u.taskid = t.taskid
                 /\ u.has_received_ack)
                    => /\ u.nbsend = t.nbsend
                       /\ Cnt(hist'.dataTx, t.pkt.pktid)
                            = Cnt(hist.dataTx, t.pkt.pktid)]_vars

\* A task was marked after its first transmission, and the time of its next
\* schedule entry has come.
C28_Witness ==
    \E i \in Slots :
        /\ Marked(i)
        /\ TasksOf(NodeB)[i].nbsend = 1
        /\ Transmitted(TasksOf(NodeB)[i].pkt.pktid) = 1
        /\ TasksOf(NodeB)[i].send_schedule_pos = 1
        /\ clock - TasksOf(NodeB)[i].mtime_ref >= snd_expack_sched[2]

\* ----------------------------------------------------------- the state table
\* NodeB runs a sketch that receives with receive() and with
\* receive_noblock() and a timeout of one clock step, and sends with ACK; a
\* data frame with SIN of AddrA and the ACK of the first packet-id may come in.
NextTable ==
    \/ Tick
    \/ Arrive(NodeB, DataFrame(AddrB, AddrA, FLAG_SIN, 1))
    \/ Arrive(NodeB, SchedAck)
    \/ DoEvents(NodeB, ERR_OK, NoPeer)
    \/ ReceiveNoblock(NodeB, CfgTimeout(TimeStep))
    \/ SendNoblock(NodeB, AddrA, Payload, 1, TRUE)
    \/ ReceiveCall(NodeB, NoCfg, MAX_PAYLOAD, ERR_OK, NoPeer)
    \/ ReceiveLoop(NodeB, ERR_OK, NoPeer)
    \/ ReceiveReturn(NodeB, ERR_OK, NoPeer)

SpecTable == Init /\ [][NextTable]_vars

\* The edges of the state table between statuses a task is seen in.
Edges ==
    {<<ST_SEND, ST_SEND_DONE>>,
     <<ST_RECEIVE, ST_RECEIVE_DATA_AVAILABLE>>,
     <<ST_RECEIVE, ST_RECEIVE_TIMEDOUT>>,
     <<ST_RECEIVE_DATA_AVAILABLE, ST_RECEIVE_DATA_RETRIEVED>>,
     <<ST_RECEIVE_DATA_AVAILABLE, ST_RECEIVE_TIMEDOUT>>}

\* The statuses with an edge to ST_FINISHED.
Ending == {ST_SEND_DONE, ST_RECEIVE_DATA_RETRIEVED, ST_RECEIVE_TIMEDOUT}

\* The kinds of step of the sketch of NodeB: one call that creates a task;
\* the start of receive() (receive_noblock(), then do_events()); its end
\* (data_retrieve(), then do_events()); anything else that changes the device
\* is one do_events().
StepCreates ==
    /\ app'[NodeB].creates # app[NodeB].creates
    /\ app'[NodeB].api \in {"send_noblock", "receive_noblock"}
StepReceiveStarts ==
    /\ app'[NodeB].creates # app[NodeB].creates
    /\ app'[NodeB].api = "receive"
StepReceiveEnds ==
    app[NodeB].pc = "receive_loop" /\ app'[NodeB].pc = "idle"

\* The step keeps the task of slot i.
Keeps(i) ==
    /\ TasksOf(NodeB)[i].status # ST_NOTHING
    /\ TasksOf(NodeB)'[i].taskid = TasksOf(NodeB)[i].taskid

\* The step takes the slot i from its task.
Releases(i) ==
    /\ TasksOf(NodeB)[i].status # ST_NOTHING
    /\ TasksOf(NodeB)'[i].taskid # TasksOf(NodeB)[i].taskid

\* The step puts a new task in slot i.
Creates(i) ==
    /\ TasksOf(NodeB)'[i].status # ST_NOTHING
    /\ \/ TasksOf(NodeB)[i].status = ST_NOTHING
       \/ TasksOf(NodeB)'[i].taskid # TasksOf(NodeB)[i].taskid

\* C29: a task a step keeps stays in its status or follows one edge of the
\* table (data_retrieve() when receive() ends, do_events() otherwise); a slot
\* is taken from a task only by a do_events() that finds the task in a status
\* with an edge to ST_FINISHED; a task is created in ST_SEND by
\* send_noblock() and for an ACK, in ST_RECEIVE by receive_noblock(), and a
\* do_events() that follows in the same step takes it along one edge at most.
C29_StateTable ==
    [][\A i \in Slots :
        LET t == TasksOf(NodeB)[i]
            u == TasksOf(NodeB)'[i]
            retrieves == /\ StepReceiveEnds /\ app[NodeB].slot = i
                         /\ t.taskid = app[NodeB].taskid
                         /\ t.status = ST_RECEIVE_DATA_AVAILABLE
        IN  /\ Keeps(i)
                => IF retrieves THEN u.status = ST_RECEIVE_DATA_RETRIEVED
                   ELSE IF StepCreates THEN u.status = t.status
                   ELSE u.status = t.status \/ <<t.status, u.status>> \in Edges
            /\ Releases(i)
                => /\ ~StepCreates
                   /\ t.status \in Ending \/ retrieves
            /\ Creates(i)
                => IF u.is_an_ack
                   THEN /\ ~StepCreates
                        /\ u.status \in {ST_SEND, ST_SEND_DONE}
                   ELSE IF StepCreates
                   THEN u.status = IF app'[NodeB].api = "send_noblock"
                                   THEN ST_SEND ELSE ST_RECEIVE
                   ELSE /\ StepReceiveStarts
                        /\ u.status \in {ST_RECEIVE, ST_RECEIVE_DATA_AVAILABLE,
                                         ST_RECEIVE_TIMEDOUT}]_vars

\* A task created with a timeout is in ST_RECEIVE_TIMEDOUT while another one
\* holds a frame that receive() retrieved.
C29_Witness ==
    \E i, j \in Slots :
        /\ TasksOf(NodeB)[i].status = ST_RECEIVE_TIMEDOUT
        /\ hist.tmo[i] = TimeStep
        /\ TasksOf(NodeB)[j].status = ST_RECEIVE_DATA_RETRIEVED

\* ------------------------------------------------------- tasks come to an end
\* The clock step of this section: a quarter of the range of mtime_t.
LiveStep == MtimeMod \div 4

\* The frames that come in, in this section.
LiveArrivals == MaxArrivals - 1

\* The tests of do_events() that make it act: the interrupt has fired, the
\* interrupt is to be attached for a task that waits for frames, or the timer
\* of a task is due.
SomethingDue ==
    \/ eng[NodeB].interrupted
    \/ /\ ~eng[NodeB].interrupt_is_attached
       /\ eng[NodeB].funcs.deviceReceive
       /\ \E i \in Slots : TasksOf(NodeB)[i].evtsub_pktrcvd
    \/ \E i \in Slots : Due(TasksOf(NodeB)[i], clock)

\* millis() advances, and wraps, for ever; the sketch calls do_events() far
\* more often than millis() moves on by a step, so that the clock finds the
\* device with nothing left to do at the current time.
TickLive ==
    /\ ~SomethingDue
    /\ clock' = IF clock + LiveStep >= MtimeMod THEN 0 ELSE clock + LiveStep
    /\ UNCHANGED <<eng, radio, app, hist>>

\* NodeB runs a sketch that receives with receive() and with
\* receive_noblock() and a timeout of TimeStep,
\* and sends with and without ACK; a data frame with SIN of AddrA and the ACK
\* of the first packet-id may come in.
NextLive ==
    \/ TickLive
    \/ ArriveWithin(NodeB, DataFrame(AddrB, AddrA, FLAG_SIN, 1), LiveArrivals)
    \/ ArriveWithin(NodeB, SchedAck, LiveArrivals)
    \/ DoEvents(NodeB, ERR_OK, NoPeer)
    \/ ReceiveNoblock(NodeB, CfgTimeout(TimeStep))
    \/ \E ack \in BOOLEAN : SendNoblock(NodeB, AddrA, Payload, 1, ack)
    \/ ReceiveCall(NodeB, NoCfg, MAX_PAYLOAD, ERR_OK, NoPeer)
    \/ ReceiveLoop(NodeB, ERR_OK, NoPeer)
    \/ ReceiveReturn(NodeB, ERR_OK, NoPeer)

\* The next call of do_events() by the sketch: in loop(), or inside receive().
Polls ==
    \/ DoEvents(NodeB, ERR_OK, NoPeer)
    \/ ReceiveLoop(NodeB, ERR_OK, NoPeer)
    \/ ReceiveReturn(NodeB, ERR_OK, NoPeer)

\* That call would change the device or end receive(): the condition under
\* which <<Polls>>_vars is enabled.
Pending ==
    \/ app[NodeB].pc = "idle" /\ SomethingDue
    \/ /\ app[NodeB].pc = "receive_loop"
       /\ \/ SomethingDue
          \/ task_get_status(eng[NodeB], app[NodeB].taskid) # ST_RECEIVE

\* The clock keeps advancing (WF_vars(TickLive)) and do_events() keeps being
\* called, by loop() and inside receive(): the weak fairness of Polls, stated
\* with its enabling condition.
SpecLive ==
    /\ Init /\ [][NextLive]_vars
    /\ WF_vars(TickLive)
    /\ <>[]Pending => []<><<Polls>>_vars

\* The task ids a device of this section hands out: one per creating call
\* and one per ACK task, of which a frame that comes in makes at most one.
TaskIds == 1..(MaxCreates + LiveArrivals)

\* Slot i holds the task id, and the task is not one in ST_RECEIVE without a
\* timeout.
Underway(i, id) ==
    /\ TasksOf(NodeB)[i].status # ST_NOTHING
    /\ TasksOf(NodeB)[i].taskid = id
    /\ ~(/\ TasksOf(NodeB)[i].status = ST_RECEIVE
         /\ ~TasksOf(NodeB)[i].evtsub_wakeup)

\* Slot i is back in the pool, or holds another task.
Gone(i, id) ==
    \/ TasksOf(NodeB)[i].status = ST_NOTHING
    \/ TasksOf(NodeB)[i].taskid # id

\* Every task that is not waiting in ST_RECEIVE without a timeout comes to
\* its end, and its slot returns to the pool.
AllTasksEnd ==
    /\ [](eng[NodeB].last_taskid \in TaskIds \cup {0})
    /\ \A i \in Slots : \A id \in TaskIds : Underway(i, id) ~> Gone(i, id)

\* The step takes slot i from a task that sends.
SendEnds(i) ==
    /\ Releases(i)
    /\ TasksOf(NodeB)[i].status \in {ST_SEND, ST_SEND_DONE}

\* C30 as stated: every task that is not waiting in ST_RECEIVE without a
\* timeout is destroyed in the end, a task that sends with all the entries of
\* its schedule passed.
C30_AllSchedulesComplete ==
    /\ AllTasksEnd
    /\ [][\A i \in Slots :
            SendEnds(i) => TasksOf(NodeB)[i].send_schedule_pos
                                = TasksOf(NodeB)[i].nb_send_schedules]_vars

\* C30, amended: every task that is not waiting in ST_RECEIVE without a
\* timeout is destroyed in the end, a task that sends from ST_SEND_DONE, with
\* all the entries of its schedule passed or, short of that, marked by the
\* ACK it asked for.
C30_AllTasksEnd ==
    /\ AllTasksEnd
    /\ [][\A i \in Slots :
            SendEnds(i)
                => /\ TasksOf(NodeB)[i].status = ST_SEND_DONE
                   /\ \/ TasksOf(NodeB)[i].send_schedule_pos
                            = TasksOf(NodeB)[i].nb_send_schedules
                      \/ /\ TasksOf(NodeB)[i].need_ack
                         /\ TasksOf(NodeB)[i].has_received_ack]_vars

\* The pool is empty again: the tasks that were created, a send and the ACK
\* task of a frame that came in among them, have all come to their end.
C30_Witness ==
    /\ \A i \in Slots : TasksOf(NodeB)[i].status = ST_NOTHING
    /\ eng[NodeB].last_taskid >= MaxCreates + 1
    /\ Cnt(hist.dataTx, 1) >= 1
    /\ hist.ackSeen # {}

\* ------------------------------------------------- the interrupt of the radio
\* Some task of NodeB is subscribed to frame-received events.
Subscribed == \E i \in Slots : TasksOf(NodeB)[i].evtsub_pktrcvd

\* The interrupt as the first step of a do_events() called now leaves it.
ArmedAfterScan == scan_tasks(Ctx(eng[NodeB])).e.interrupt_is_attached

\* With a task subscribed, the first step of do_events() leaves the interrupt
\* armed.
ArmedWhenSubscribed == Subscribed => ArmedAfterScan

\* C31: after the first step of a do_events(), the interrupt is armed if a
\* task is subscribed to frame-received events and disarmed if none is.
C31_ArmedIffSubscribed == ArmedAfterScan <=> Subscribed

\* ------------------------------------------------- the drain, step by step
\* do_events() with the flag down: there is no drain, the call is one step.
DoEventsQuiet(n) ==
    /\ ~eng[n].interrupted
    /\ DoEvents(n, ERR_OK, NoPeer)

\* do_events() finds the flag up: the scan, the test of the flag and
\* interrupts_off().  The sketch is now in front of the call of deviceReceive.
DrainBegin(n) ==
    /\ app[n].pc = "idle"
    /\ eng[n].funcs.deviceInit
    /\ eng[n].interrupted
    /\ eng' = [eng EXCEPT ![n] = interrupts_off(scan_tasks(Ctx(eng[n]))).e]
    /\ app' = [app EXCEPT ![n].pc = "drain_read"]
    /\ UNCHANGED <<radio, clock, hist>>

\* deviceReceive takes the frame out of the radio, if a task waits for
\* frames.  The sketch is now in front of `interrupted = false`.
DrainRead(n) ==
    /\ app[n].pc = "drain_read"
    /\ IF wants_to_receive(eng[n])
       THEN /\ radio' = [radio EXCEPT ![n] = NullPkt]
            /\ hist' = [hist EXCEPT !.recpkt = radio[n]]
       ELSE UNCHANGED <<radio, hist>>
    /\ app' = [app EXCEPT ![n].pc = "drain_clear"]
    /\ UNCHANGED <<eng, clock>>

\* The flag is cleared, the interrupt attached again, and do_events() goes on
\* to its end with the frame that was read.
DrainEnd(n) ==
    /\ app[n].pc = "drain_clear"
    /\ LET c0 == Ctx(eng[n])
           c  == do_events(c0, clock, Rcs(ERR_OK), hist.recpkt)
       IN  /\ eng' = [eng EXCEPT ![n] = Forget(c.e)]
           /\ radio' = [radio EXCEPT ![n] = IF c.ev.reset THEN NullPkt ELSE @]
           /\ hist' = [Observe(hist, c0, c) EXCEPT !.recpkt = NullPkt]
    /\ app' = [app EXCEPT ![n].pc = "idle"]
    /\ UNCHANGED clock

\* NodeB runs a sketch that receives, with and without a timeout, and sends;
\* data frames of AddrA, the second one a repeat or not, come in at any
\* point of do_events().
NextDrain ==
    \/ Tick
    \/ \E id \in 1..2 : Arrive(NodeB, DataFrame(AddrB, AddrA, FLAG_SIN, id))
    \/ DoEventsQuiet(NodeB)
    \/ DrainBegin(NodeB)
    \/ DrainRead(NodeB)
    \/ DrainEnd(NodeB)
    \/ \E cfg \in {NoCfg, CfgTimeout(TimeStep)} : ReceiveNoblock(NodeB, cfg)
    \/ SendNoblock(NodeB, AddrA, Payload, 1, FALSE)

SpecDrain == Init /\ [][NextDrain]_vars

\* NodeB is inside the drain of do_events().
InDrain == app[NodeB].pc \in {"drain_read", "drain_clear"}

\* The step clears the interrupt flag.
ClearsFlag == eng[NodeB].interrupted /\ ~eng'[NodeB].interrupted

\* The step reads the radio.
ReadsRadio == ~radio[NodeB].null /\ radio'[NodeB].null

\* C32: the interrupt is not attached while do_events() is between its
\* interrupts_off() and the clearing of the flag, so that the handler does not
\* run there; the flag is cleared by that step of do_events() only, and the
\* radio is read in the drain only, with the interrupt not attached.
C32_DrainIsDisarmed ==
    /\ [](InDrain => ~eng[NodeB].interrupt_is_attached)
    /\ [][ClearsFlag => /\ app[NodeB].pc = "drain_clear"
                        /\ ~eng[NodeB].interrupt_is_attached]_vars
    /\ [][ReadsRadio => /\ app[NodeB].pc = "drain_read"
                        /\ ~eng[NodeB].interrupt_is_attached]_vars
    /\ [][InDrain /\ InDrain' => eng'[NodeB].interrupted
                                    = eng[NodeB].interrupted]_vars

\* A frame reached the radio while NodeB was inside the drain, after the read:
\* the flag is up from the frame before, and the interrupt is not attached.
C32_Witness ==
    /\ app[NodeB].pc = "drain_clear"
    /\ ~radio[NodeB].null
    /\ ~hist.recpkt.null
    /\ eng[NodeB].interrupted

\* ------------------------------------------------------------------ sleep
\* RFLink::set_auto_sleep
set_auto_sleep(c, v) == [c EXCEPT !.e.auto_sleep = v]

\* loop() of a sketch calls set_auto_sleep().
SetAutoSleep(n, v) ==
    /\ app[n].pc = "idle"
    /\ eng[n].auto_sleep # v
    /\ eng' = [eng EXCEPT ![n] = set_auto_sleep(Ctx(eng[n]), v).e]
    /\ UNCHANGED <<radio, clock, app, hist>>

\* loop() of a sketch calls do_events(), which runs up to its sleep test:
\* it returns, or it is now in front of deviceInit(nullptr, true).
DoEventsSleep(n) ==
    /\ app[n].pc = "idle"
    /\ eng[n].funcs.deviceInit
    /\ LET c == before_sleep(Ctx(eng[n]), clock, Rcs(ERR_OK), radio[n])
       IN  /\ Commit(n, Ctx(eng[n]), c, NoPeer, hist)
           /\ app' = [app EXCEPT ![n].pc =
                        IF device_sleep(c).ev.slept THEN "sleep_init"
                        ELSE "idle"]
    /\ UNCHANGED clock

\* deviceInit(nullptr, true) resets the radio: a frame it holds is gone.  The
\* sketch is now in front of sleep_cpu().
SleepInit(n) ==
    /\ app[n].pc = "sleep_init"
    /\ radio' = [radio EXCEPT ![n] = NullPkt]
    /\ app' = [app EXCEPT ![n].pc = "sleep_cpu"]
    /\ UNCHANGED <<eng, clock, hist>>

\* sleep_cpu(): the CPU stops until the next interrupt.
SleepCpu(n) ==
    /\ app[n].pc = "sleep_cpu"
    /\ app' = [app EXCEPT ![n].pc = "asleep"]
    /\ UNCHANGED <<eng, radio, clock, hist>>

\* A frame reaches the radio of device n.  If the interrupt is attached
\* interrupt_func() runs, and a CPU stopped in sleep_cpu() goes on: do_events()
\* returns.
ArriveSleep(n, f) ==
    /\ hist.arrivals < MaxArrivals
    /\ radio' = [radio EXCEPT ![n] = IF @.null THEN f ELSE @]
    /\ eng' = [eng EXCEPT ![n].interrupted = @ \/ eng[n].interrupt_is_attached]
    /\ app' = [app EXCEPT ![n].pc =
                    IF @ = "asleep" /\ eng[n].interrupt_is_attached
                    THEN "idle" ELSE @]
    /\ hist' = [hist EXCEPT !.arrivals = @ + 1]
    /\ UNCHANGED clock

\* NodeB runs a sketch that switches auto-sleep on and off, receives with and
\* without a timeout and sends; data frames of AddrA come in at any time.
NextSleep ==
    \/ Tick
    \/ ArriveSleep(NodeB, DataFrame(AddrB, AddrA, FLAG_NONE, 1))
    \/ \E v \in BOOLEAN : SetAutoSleep(NodeB, v)
    \/ DoEventsSleep(NodeB)
    \/ SleepInit(NodeB)
    \/ SleepCpu(NodeB)
    \/ \E cfg \in {NoCfg, CfgTimeout(TimeStep)} : ReceiveNoblock(NodeB, cfg)
    \/ SendNoblock(NodeB, AddrA, Payload, 1, FALSE)

SpecSleep == Init /\ [][NextSleep]_vars

\* do_events() of NodeB has decided to sleep.
Parked == app[NodeB].pc \in {"sleep_init", "sleep_cpu", "asleep"}

\* C33: do_events() goes to sleep only with auto-sleep on and exactly one
\* live task, which is subscribed to frames and not to the timer; no task
\* that sends and no task subscribed to the timer exists then.
C33_SleepsOnlyAsLoneListener ==
    Parked =>
        /\ eng[NodeB].auto_sleep
        /\ \E i \in Slots :
                /\ TasksOf(NodeB)[i].status # ST_NOTHING
                /\ TasksOf(NodeB)[i].evtsub_pktrcvd
                /\ \A j \in Slots \ {i} : TasksOf(NodeB)[j].status = ST_NOTHING
        /\ \A i \in Slots :
                /\ ~TasksOf(NodeB)[i].evtsub_wakeup
                /\ TasksOf(NodeB)[i].status \notin {ST_SEND, ST_SEND_DONE}

\* The CPU sleeps with one task in ST_RECEIVE, not in the first slot: the
\* task that was in the first slot has come to its end.
C33_Witness ==
    /\ app[NodeB].pc = "asleep"
    /\ \E i \in Slots \ {1} : TasksOf(NodeB)[i].status = ST_RECEIVE

\* C40: the CPU does not sleep with the interrupt flag up; the frame whose
\* interrupt raised the flag after the drain is still in the radio, or was
\* read, when the CPU sleeps.
C40_NoSleepWithFlagUp == ~(app[NodeB].pc = "asleep" /\ eng[NodeB].interrupted)

\* ---------------------------------------------- the deadline of a retrieval
\* The step retrieves the payload of the task of slot i.
Retrieves(i) ==
    /\ TasksOf(NodeB)[i].status = ST_RECEIVE_DATA_AVAILABLE
    /\ eng'[NodeB].tasks[i].status = ST_RECEIVE_DATA_RETRIEVED

\* C34 as stated: a retrieval puts the task in ST_RECEIVE_DATA_RETRIEVED with
\* its timer set to the time of the retrieval plus receive_purge_delay.
C34_DeadlineFromRetrieval ==
    [][\A i \in Slots :
        Retrieves(i)
            => /\ eng'[NodeB].tasks[i].evtsub_wakeup
               /\ eng'[NodeB].tasks[i].mtime_wakeup
                    = clock + eng[NodeB].receive_purge_delay]_vars

\* The step hands a frame to the task of slot i.
Accepts(i) ==
    /\ TasksOf(NodeB)[i].status # ST_RECEIVE_DATA_AVAILABLE
    /\ eng'[NodeB].tasks[i].status = ST_RECEIVE_DATA_AVAILABLE

\* The task of slot i holds a frame before and after the step.
Holds(i) ==
    /\ TasksOf(NodeB)[i].status = ST_RECEIVE_DATA_AVAILABLE
    /\ eng'[NodeB].tasks[i].status = ST_RECEIVE_DATA_AVAILABLE

\* C34, amended: mtime_ref of a task that holds a frame is the time at which
\* the frame was accepted; a retrieval puts the task in
\* ST_RECEIVE_DATA_RETRIEVED with its timer set to mtime_ref plus
\* receive_purge_delay, whatever the time of the retrieval.
C34_DeadlineFromDelivery ==
    /\ [][\A i \in Slots :
            /\ Accepts(i) => eng'[NodeB].tasks[i].mtime_ref = clock
            /\ Holds(i) => eng'[NodeB].tasks[i].mtime_ref
                                = TasksOf(NodeB)[i].mtime_ref]_vars
    /\ [][\A i \in Slots :
            Retrieves(i)
                => /\ eng'[NodeB].tasks[i].evtsub_wakeup
                   /\ eng'[NodeB].tasks[i].mtime_ref
                        = TasksOf(NodeB)[i].mtime_ref
                   /\ eng'[NodeB].tasks[i].mtime_wakeup
                        = TasksOf(NodeB)[i].mtime_ref
                            + eng[NodeB].receive_purge_delay]_vars

\* The sketch got a payload that was retrieved one clock step after its frame
\* was accepted: the task is in ST_RECEIVE_DATA_RETRIEVED, half a second of
\* its purge delay gone.
C34_Witness ==
    \E i \in Slots :
        /\ TasksOf(NodeB)[i].status = ST_RECEIVE_DATA_RETRIEVED
        /\ app[NodeB].ret = ERR_OK
        /\ app[NodeB].api = "receive"
        /\ clock > TasksOf(NodeB)[i].mtime_ref
        /\ TasksOf(NodeB)[i].mtime_wakeup
                = TasksOf(NodeB)[i].mtime_ref + eng[NodeB].receive_purge_delay

\* ------------------------------------------------- the sequence counter
\* hist after a do_events() that went from c0 to c: the frames it handed to
\* deviceSend.  The rank of a data frame is counted from hist.dataTx, the
\* frames of its packet-id handed over so far.
NoteSeq(h, c0, c) ==
    [h EXCEPT !.seqTx = @ \cup
        {[ack   |-> IsAckFrame(c.tx[j].f),
          sin   |-> c0.e.tasks[c.tx[j].slot].need_ack,
          k     |-> IF IsAckFrame(c.tx[j].f) THEN 1
                    ELSE Cnt(h.dataTx, c.tx[j].f.pktid) + 1,
          flags |-> c.tx[j].f.flags] : j \in DOMAIN c.tx}]

\* loop() of a sketch calls do_events(); the frames it transmits are noted.
DoEventsSeq(n, rc) ==
    /\ app[n].pc = "idle"
    /\ LET c == do_events(Ctx(eng[n]), clock, Rcs(rc), radio[n])
       IN  Commit(n, Ctx(eng[n]), c, NoPeer, NoteSeq(hist, Ctx(eng[n]), c))
    /\ UNCHANGED <<clock, app>>

\* NodeB runs a sketch that sends with and without ACK, with a radio that
\* may fail, and receives with receive(); a data frame with SIN of AddrA and
\* the ACK of the first packet-id may come in.
NextSeq ==
    \/ Tick
    \/ Arrive(NodeB, DataFrame(AddrB, AddrA, FLAG_SIN, 1))
    \/ Arrive(NodeB, SchedAck)
    \/ \E rc \in RetCodes : DoEventsSeq(NodeB, rc)
    \/ \E ack \in BOOLEAN : SendNoblock(NodeB, AddrA, Payload, 1, ack)
    \/ ReceiveCall(NodeB, NoCfg, MAX_PAYLOAD, ERR_OK, NoPeer)
    \/ ReceiveLoop(NodeB, ERR_OK, NoPeer)
    \/ ReceiveReturn(NodeB, ERR_OK, NoPeer)

SpecSeq == Init /\ [][NextSeq]_vars

\* The task of slot i is an ACK task before and after the step.
StaysAck(i) ==
    /\ TasksOf(NodeB)[i].is_an_ack
    /\ eng'[NodeB].tasks[i].is_an_ack
    /\ eng'[NodeB].tasks[i].taskid = TasksOf(NodeB)[i].taskid

\* C35: the k-th frame handed to deviceSend for a packet that is not an ACK
\* carries the sequence (k - 1) mod 16 in its high nibble and its option in
\* the low one; a task that sends data has counted as many transmissions as
\* its sequence counter tells; the flags of an ACK task never change, and an
\* ACK frame carries the option FLAG_ACK.
C35_SeqCountsTransmits ==
    /\ [](\A x \in hist.seqTx :
            IF x.ack THEN flags_opt(x.flags) = FLAG_ACK
            ELSE /\ flags_seq(x.flags) = (x.k - 1) % 16
                 /\ flags_opt(x.flags)
                        = IF x.sin THEN FLAG_SIN ELSE FLAG_NONE)
    /\ [](\A i \in Slots :
            /\ TasksOf(NodeB)[i].status \in {ST_SEND, ST_SEND_DONE}
            /\ ~TasksOf(NodeB)[i].is_an_ack
            => flags_seq(TasksOf(NodeB)[i].pkt.flags)
                    = TasksOf(NodeB)[i].nbsend % 16)
    /\ [][\A i \in Slots :
            StaysAck(i) => eng'[NodeB].tasks[i].pkt.flags
                                = TasksOf(NodeB)[i].pkt.flags]_vars

\* The last frame of a packet sent without ACK and a repeat of a packet sent
\* with ACK were handed to deviceSend.
C35_Witness ==
    /\ \E x \in hist.seqTx : ~x.ack /\ ~x.sin /\ x.k = Len(snd_sched)
    /\ \E x \in hist.seqTx : ~x.ack /\ x.sin /\ x.k >= 2

\* An ACK frame was handed to deviceSend and its task is still there.
AckWasSent ==
    /\ \E x \in hist.seqTx : x.ack
    /\ \E i \in Slots : /\ TasksOf(NodeB)[i].is_an_ack
                         /\ TasksOf(NodeB)[i].nbsend = 1

\* ---------------------------------------------------------- the packet-id
\* NodeB is new, or it has sent 65534 packets and created 12 other tasks
\* since its taskid_t counter wrapped.
InitPktid ==
    /\ eng \in {[n \in Nodes |->
                    [InitEng(AddrOf(n)) EXCEPT !.last_pktid = p[1],
                                               !.last_taskid = p[2]]] :
                p \in {<<0, 0>>, <<Mod16 - 2, 10>>}}
    /\ radio = [n \in Nodes |-> NullPkt]
    /\ clock = 0
    /\ app = [n \in Nodes |-> InitApp]
    /\ hist = InitHist

\* The (data, len) arguments of send_noblock() that a sketch may pass without
\* reading from address 0.
PktidArgs == {a \in ArgCases : a.data # <<>> \/ a.len = 0}

\* NodeB runs a sketch that calls send_noblock() with right and wrong
\* arguments, with a full pool or not, and receive(); a data frame with SIN
\* comes in, once or twice, and is acknowledged.
NextPktid ==
    \/ Tick
    \/ Arrive(NodeB, DataFrame(AddrB, AddrA, FLAG_SIN, 1))
    \/ DoEvents(NodeB, ERR_OK, NoPeer)
    \/ \E a \in PktidArgs :
            SendNoblockArgs(NodeB, AddrA, a, FALSE,
                            [k \in 1..MAX_PAYLOAD |-> 0], FALSE)
    \/ ReceiveCall(NodeB, NoCfg, MAX_PAYLOAD, ERR_OK, NoPeer)
    \/ ReceiveLoop(NodeB, ERR_OK, NoPeer)
    \/ ReceiveReturn(NodeB, ERR_OK, NoPeer)

SpecPktid == InitPktid /\ [][NextPktid]_vars

\* The step is a send_noblock() of NodeB that returns ERR_TASK_CREATED_OK.
SendsOk ==
    /\ CallsSend
    /\ app'[NodeB].ret = ERR_TASK_CREATED_OK

\* C36: a send_noblock() that succeeds gives its packet the packet-id
\* (last_pktid + 1) mod 2^16 and makes it the last one; no other step, a
\* send_noblock() that fails and the creation of an ACK task included,
\* changes last_pktid.
C36_PktidAdvancesPerSend ==
    [][IF SendsOk
       THEN /\ eng'[NodeB].last_pktid = (eng[NodeB].last_pktid + 1) % Mod16
            /\ eng'[NodeB].tasks[app'[NodeB].slot].pkt.pktid
                    = eng'[NodeB].last_pktid
            /\ eng'[NodeB].last_pktid \in 0..(Mod16 - 1)
       ELSE eng'[NodeB].last_pktid = eng[NodeB].last_pktid]_vars

\* The packet-id wrapped: the task of the last send_noblock() holds the
\* packet-id 0, after 65535.
C36_Witness ==
    /\ eng[NodeB].last_pktid = 0
    /\ app[NodeB].api = "send_noblock"
    /\ app[NodeB].ret = ERR_TASK_CREATED_OK
    /\ TasksOf(NodeB)[app[NodeB].slot].pkt.pktid = 0
    /\ TasksOf(NodeB)[app[NodeB].slot].status = ST_SEND

\* A send_noblock() failed for lack of a free slot, and an ACK task was
\* created.
FailedAndAcked ==
    /\ app[NodeB].api = "send_noblock"
    /\ app[NodeB].ret = ERR_UNABLE_TO_CREATE_TASK
    /\ \E i \in Slots : TasksOf(NodeB)[i].is_an_ack

\* ------------------------------------------------------------ the task-id
\* C37: every live task has a non-zero task-id, different from the task-id of
\* every other live task and from the id 0 of the free slots, also once the
\* 16-bit counter has wrapped; so a lookup by the id of a live task finds
\* that task and never a free slot or another task.
C37_LiveIdsUniqueNonZero ==
    \A i \in LiveSlots(NodeB) :
        /\ eng[NodeB].tasks[i].taskid # 0
        /\ \A j \in LiveSlots(NodeB) \ {i} :
               eng[NodeB].tasks[j].taskid # eng[NodeB].tasks[i].taskid
        /\ get_task_by_taskid(eng[NodeB], eng[NodeB].tasks[i].taskid) = i

\* ------------------------------------------------------- invalid frames
\* A frame of k < HeaderLen bytes.  deviceReceive writes its k bytes into
\* recpkt and the rest of the header, the length byte included, is what
\* recpkt held before: len stands for that leftover byte.
ShortFrame(k, len) ==
    [flags |-> to_flags(1, FLAG_SIN), null |-> FALSE, dst |-> AddrB,
     src |-> AddrA, pktid |-> 3, len |-> len, data |-> <<>>, cut |-> k]

\* A frame that declares and carries one byte more than a payload may have.
LongFrame ==
    MkPkt(AddrB, AddrA, to_flags(1, FLAG_SIN), 3, MAX_PAYLOAD + 1,
          [k \in 1..(MAX_PAYLOAD + 1) |-> k])

\* A frame that carries one byte and declares none.
ExtraByteFrame == MkPkt(AddrB, AddrA, to_flags(1, FLAG_SIN), 3, 0, <<1>>)

InvalidFrames ==
    {ShortFrame(k, l) : k \in {1, HeaderLen - 1}, l \in {0, MAX_PAYLOAD + 1}}
        \cup {LongFrame, BadFrame, ExtraByteFrame}

\* NodeB runs a sketch that receives with receive_noblock() and sends with
\* send_noblock() and an ACK; well-formed and invalid frames reach it.
NextInvalid ==
    \/ Tick
    \/ \E f \in InvalidFrames : Arrive(NodeB, f)
    \/ Arrive(NodeB, DataFrame(AddrB, AddrA, FLAG_SIN, 1))
    \/ Arrive(NodeB, AckFrame(AddrB, AddrA, 1))
    \/ DoEvents(NodeB, ERR_OK, NoPeer)
    \/ ReceiveNoblock(NodeB, NoCfg)
    \/ SendNoblock(NodeB, AddrA, Payload, 1, TRUE)

SpecInvalid == Init /\ [][NextInvalid]_vars

\* The bytes deviceReceive reports for the frame in the radio.
DrainedBytes(f) == Min(nb_bytes(f), HeaderLen + MAX_PAYLOAD)

\* The three cases of the claim.
IsInvalid(f) ==
    /\ ~f.null
    /\ \/ DrainedBytes(f) < HeaderLen
       \/ f.len > MAX_PAYLOAD
       \/ DrainedBytes(f) # HeaderLen + f.len

\* A step of do_events that takes the frame out of the radio while a task
\* waits for frames.
DrainsFrame ==
    /\ ~radio[NodeB].null
    /\ radio'[NodeB].null
    /\ eng[NodeB].interrupted
    /\ wants_to_receive(eng[NodeB])

\* The same tick with a read of zero bytes.
EmptyTick == do_events(Ctx(eng[NodeB]), clock, Rcs(ERR_OK), NullPkt)

\* C38: a drained frame of fewer bytes than the header, or whose length byte
\* exceeds MAX_PAYLOAD, or whose byte count is not 6 + its length byte, is
\* dropped silently: the cache is left as it was and no task gets a
\* frame-received event, the tasks ending the tick as they end one in which
\* nothing was read.
C38_InvalidFrameDropped ==
    [][(DrainsFrame /\ IsInvalid(radio[NodeB]))
        => /\ eng'[NodeB].cache = eng[NodeB].cache
           /\ \A i \in Slots : eng'[NodeB].tasks[i].pkt # radio[NodeB]
           /\ eng'[NodeB].tasks = Forget(EmptyTick.e).tasks]_vars

\* Every arrival is over, the interrupt fired and do_events emptied the
\* radio, yet the cache is empty and the task still waits in ST_RECEIVE: what
\* it read was an invalid frame.
C38_Witness ==
    /\ radio[NodeB].null
    /\ ~eng[NodeB].interrupted
    /\ hist.arrivals = MaxArrivals
    /\ hist.drained = Empty
    /\ \A i \in CacheIdx : ~eng[NodeB].cache[i].used
    /\ \E i \in Slots : TasksOf(NodeB)[i].status = ST_RECEIVE

\* ------------------------------------------------ the eviction victim
\* C39: check_pktid_already_seen installs a new source at an index within
\* 0..PKTID_CACHE_SIZE-1: when no entry is unused a victim is found, also when
\* every used entry carries the time of the call (age 0); the code never
\* stores outside cache_pktids.
C39_VictimInRange == ~eng[NodeB].oob_write

====
